---- MODULE Spec2Model ----
(***************************************************************************)
(* Wave connector: aggregated-merchant resolution engine                   *)
(* (crates/hyperswitch_connectors/src/connectors/wave.rs and               *)
(* wave/transformers.rs).                                                  *)
(*                                                                         *)
(* A Rust String is a sequence of one-character strings; Option<T> is the  *)
(* empty sequence (None) or a one-element sequence (Some).                 *)
(***************************************************************************)
EXTENDS Integers, Sequences, FiniteSets, TLC

\* ------------------------------------------------------------------------
\* Bounds of the model
\* ------------------------------------------------------------------------
\* longest fallback strategy list handed to resolve_with_fallback
MaxStrategies == 2

\* number of resolutions running at the same time for one profile
NumResolutions == 2

\* the most ids one batch retrieval is given
MaxBatch == 3

\* ------------------------------------------------------------------------
\* Option and Result
\* ------------------------------------------------------------------------
None == <<>>

Some(x) == <<x>>

is_some(o) == o # None

unwrap(o) == o[1]

unwrap_or(o, d) == IF o = None THEN d ELSE o[1]

Ok(v) == [tag |-> "Ok", val |-> v]

Err(e) == [tag |-> "Err", err |-> e]

Pending == [tag |-> "Pending"]

is_ok(r) == r.tag = "Ok"

is_err(r) == r.tag = "Err"

\* ------------------------------------------------------------------------
\* Strings
\* ------------------------------------------------------------------------
\* str::len(): the length in bytes; the only multi-byte character the model
\* uses is a two-byte one.
Utf8Width(c) == IF c = "é" THEN 2 ELSE 1

len(s) == Len(s) + Cardinality({i \in DOMAIN s : Utf8Width(s[i]) = 2})

is_empty(s) == Len(s) = 0

starts_with(s, p) == Len(s) >= Len(p) /\ SubSeq(s, 1, Len(p)) = p

Whitespace == {" ", "\t", "\n"}

\* str::trim().is_empty()
trim_is_empty(s) == \A i \in DOMAIN s : s[i] \in Whitespace

\* a string of n copies of the character c
Repeat(c, n) == [i \in 1..n |-> c]

AmPrefix == <<"a", "m", "-">>

HttpPrefix == <<"h", "t", "t", "p", ":", "/", "/">>

HttpsPrefix == <<"h", "t", "t", "p", "s", ":", "/", "/">>

ProfilePrefix == <<"P", "r", "o", "f", "i", "l", "e", "_">>

DescriptionPrefix ==
    <<"P", "a", "y", "m", "e", "n", "t", " ", "p", "r", "o", "c", "e", "s", "s", "i", "n", "g",
      " ", "f", "o", "r", " ">>

\* ------------------------------------------------------------------------
\* Validation limits (program constants)
\* ------------------------------------------------------------------------
MaxDescriptionLen == 500

MaxManagerNameLen == 100

MaxWebsiteUrlLen == 2083

MaxRegistrationIdLen == 50

MaxSectorLen == 100

MaxNameLen == 255

MinCacheTtl == 60

MaxCacheTtl == 86400

MinMerchantIdLen == 4

\* the retry loop allowing one attempt more
max_retries_OneMore == 3 + 1

max_retries == 3

\* ------------------------------------------------------------------------
\* Errors
\* ------------------------------------------------------------------------
InvalidConfiguration(details) == [kind |-> "InvalidConfiguration", details |-> details]

\* From<WaveAggregatedMerchantError> for ConnectorError
ConnectorErrorFrom(e) ==
    IF e.kind = "AuthenticationFailed"
    THEN [kind |-> "FailedToObtainAuthType"]
    ELSE [kind |-> "ProcessingStepFailed", detail |-> e.kind]

\* the two generic errors of parse_wave_api_error:
\* "Wave API error: {status} - {message}" and "Wave API error {status}: {body}"
ApiErrorWithMessage(status, message) ==
    [kind |-> "ProcessingStepFailed", detail |-> "Wave API error", status |-> status,
     message |-> message]

ApiErrorWithBody(status, body) ==
    [kind |-> "ProcessingStepFailed", detail |-> "Wave API error", status |-> status,
     body |-> body]

\* the classifier taking 403 for an ordinary failure
parse_wave_api_error_Only401(status, body) ==
    IF body.parsed # None
    THEN LET error_response == unwrap(body.parsed)
             error_code     == unwrap_or(error_response.code, "")
             error_message  == error_response.message
         IN  CASE status = 404 /\ error_code = "AGGREGATED_MERCHANT_NOT_FOUND" ->
                    ConnectorErrorFrom([kind |-> "MerchantNotFound", merchant_id |-> "unknown"])
               [] status = 400 /\ error_code = "INVALID_BUSINESS_TYPE" ->
                    ConnectorErrorFrom(InvalidConfiguration(error_message))
               [] status = 401 ->
                    ConnectorErrorFrom([kind |-> "AuthenticationFailed"])
               [] status = 429 ->
                    ConnectorErrorFrom([kind |-> "RateLimitExceeded"])
               [] OTHER -> ApiErrorWithMessage(status, error_message)
    ELSE ApiErrorWithBody(status, body.text)

\* parse_wave_api_error; a body is its text and, when serde_json reads it as
\* a WaveErrorResponse, that value
parse_wave_api_error(status, body) ==
    IF body.parsed # None
    THEN LET error_response == unwrap(body.parsed)
             error_code     == unwrap_or(error_response.code, "")
             error_message  == error_response.message
         IN  CASE status = 404 /\ error_code = "AGGREGATED_MERCHANT_NOT_FOUND" ->
                    ConnectorErrorFrom([kind |-> "MerchantNotFound", merchant_id |-> "unknown"])
               [] status = 400 /\ error_code = "INVALID_BUSINESS_TYPE" ->
                    ConnectorErrorFrom(InvalidConfiguration(error_message))
               [] status \in {401, 403} ->
                    ConnectorErrorFrom([kind |-> "AuthenticationFailed"])
               [] status = 429 ->
                    ConnectorErrorFrom([kind |-> "RateLimitExceeded"])
               [] OTHER -> ApiErrorWithMessage(status, error_message)
    ELSE ApiErrorWithBody(status, body.text)

\* hyperswitch_interfaces::consts
NO_ERROR_CODE == "NO_ERROR_CODE"

NO_ERROR_MESSAGE == "NO_ERROR_MESSAGE"

\* d.first().map(|detail| detail.msg.clone())
first_msg(d) == IF Len(d) = 0 THEN None ELSE Some(d[1].msg)

\* the error response taking the last detail's message for the reason
build_error_response_LastDetail(res) ==
    IF res.response.parsed # None
    THEN LET error_res == unwrap(res.response.parsed)
         IN  Ok([code |-> unwrap_or(error_res.code, NO_ERROR_CODE),
                 message |-> error_res.message,
                 reason |-> IF error_res.details = None \/ unwrap(error_res.details) = <<>>
                            THEN None
                            ELSE Some(unwrap(error_res.details)[Len(unwrap(error_res.details))].msg),
                 status_code |-> res.status_code,
                 attempt_status |-> None,
                 connector_transaction_id |-> None])
    ELSE Ok([code |-> NO_ERROR_CODE,
             message |-> NO_ERROR_MESSAGE,
             reason |-> Some("Failed to parse error response"),
             status_code |-> res.status_code,
             attempt_status |-> None,
             connector_transaction_id |-> None])

\* ConnectorCommon::build_error_response
build_error_response(res) ==
    IF res.response.parsed # None
    THEN LET error_res == unwrap(res.response.parsed)
         IN  Ok([code |-> unwrap_or(error_res.code, NO_ERROR_CODE),
                 message |-> error_res.message,
                 reason |-> IF error_res.details = None THEN None
                            ELSE first_msg(unwrap(error_res.details)),
                 status_code |-> res.status_code,
                 attempt_status |-> None,
                 connector_transaction_id |-> None])
    ELSE Ok([code |-> NO_ERROR_CODE,
             message |-> NO_ERROR_MESSAGE,
             reason |-> Some("Failed to parse error response"),
             status_code |-> res.status_code,
             attempt_status |-> None,
             connector_transaction_id |-> None])

\* ------------------------------------------------------------------------
\* WaveConnectorMetadata and its validation
\* ------------------------------------------------------------------------
WaveBusinessTypeDefault == "ecommerce"

\* validate_wave_connector_metadata: the first violated rule, in code order
validate_wave_connector_metadata(m) ==
    LET id == m.aggregated_merchant_id
        d  == m.business_description
        mn == m.manager_name
        u  == m.website_url
        r  == m.business_registration_identifier
        s  == m.business_sector
        t  == m.cache_ttl_seconds
    IN  IF is_some(id) /\ is_empty(unwrap(id))
        THEN Err(InvalidConfiguration("merchant id empty"))
        ELSE IF is_some(id) /\ (~starts_with(unwrap(id), AmPrefix) \/ len(unwrap(id)) < MinMerchantIdLen)
        THEN Err(InvalidConfiguration("merchant id format"))
        ELSE IF is_some(d) /\ len(unwrap(d)) > MaxDescriptionLen
        THEN Err(InvalidConfiguration("description too long"))
        ELSE IF is_some(d) /\ trim_is_empty(unwrap(d))
        THEN Err(InvalidConfiguration("description blank"))
        ELSE IF is_some(mn) /\ len(unwrap(mn)) > MaxManagerNameLen
        THEN Err(InvalidConfiguration("manager name too long"))
        ELSE IF is_some(mn) /\ trim_is_empty(unwrap(mn))
        THEN Err(InvalidConfiguration("manager name blank"))
        ELSE IF is_some(u) /\ len(unwrap(u)) > MaxWebsiteUrlLen
        THEN Err(InvalidConfiguration("website url too long"))
        ELSE IF is_some(u) /\ ~starts_with(unwrap(u), HttpPrefix) /\ ~starts_with(unwrap(u), HttpsPrefix)
        THEN Err(InvalidConfiguration("website url scheme"))
        ELSE IF is_some(r) /\ len(unwrap(r)) > MaxRegistrationIdLen
        THEN Err(InvalidConfiguration("registration identifier too long"))
        ELSE IF is_some(s) /\ len(unwrap(s)) > MaxSectorLen
        THEN Err(InvalidConfiguration("sector too long"))
        ELSE IF m.auto_create_aggregated_merchant = Some(TRUE) /\ is_some(id)
        THEN Err(InvalidConfiguration("auto-create with merchant id"))
        ELSE IF is_some(t) /\ (unwrap(t) < MinCacheTtl \/ unwrap(t) > MaxCacheTtl)
        THEN Err(InvalidConfiguration("cache ttl range"))
        ELSE Ok(TRUE)

\* validate_enhanced_wave_connector_metadata
validate_enhanced_wave_connector_metadata(m, profile_name) ==
    LET basic == validate_wave_connector_metadata(m)
    IN  IF is_err(basic)
        THEN basic
        ELSE IF m.auto_create_aggregated_merchant = Some(TRUE) /\ m.business_type = None
        THEN Err(InvalidConfiguration("business type required"))
        ELSE IF m.auto_create_aggregated_merchant = Some(TRUE)
                /\ (is_empty(profile_name) \/ len(profile_name) > MaxNameLen)
        THEN Err(InvalidConfiguration("profile name length"))
        ELSE Ok(TRUE)

\* validate_wave_aggregated_merchant_request
validate_wave_aggregated_merchant_request(req) ==
    LET u  == req.website_url
        r  == req.business_registration_identifier
        s  == req.business_sector
        mn == req.manager_name
    IN  IF is_empty(req.name) \/ len(req.name) > MaxNameLen
        THEN Err(InvalidConfiguration("name length"))
        ELSE IF is_empty(req.business_description)
        THEN Err(InvalidConfiguration("description required"))
        ELSE IF len(req.business_description) > MaxDescriptionLen
        THEN Err(InvalidConfiguration("description too long"))
        ELSE IF is_some(u) /\ len(unwrap(u)) > MaxWebsiteUrlLen
        THEN Err(InvalidConfiguration("website url too long"))
        ELSE IF is_some(u) /\ ~starts_with(unwrap(u), HttpPrefix) /\ ~starts_with(unwrap(u), HttpsPrefix)
        THEN Err(InvalidConfiguration("website url scheme"))
        ELSE IF is_some(r) /\ len(unwrap(r)) > MaxRegistrationIdLen
        THEN Err(InvalidConfiguration("registration identifier too long"))
        ELSE IF is_some(s) /\ len(unwrap(s)) > MaxSectorLen
        THEN Err(InvalidConfiguration("sector too long"))
        ELSE IF is_some(mn) /\ len(unwrap(mn)) > MaxManagerNameLen
        THEN Err(InvalidConfiguration("manager name too long"))
        ELSE Ok(TRUE)

\* the WaveAggregatedMerchantRequest literal of
\* build_aggregated_merchant_request_from_profile; metadata is an Option
AggregatedMerchantRequestOf(profile_name, metadata) ==
    LET field(f) == IF metadata = None THEN None ELSE unwrap(metadata)[f]
    IN  [name |-> profile_name,
         business_type |-> unwrap_or(field("business_type"), WaveBusinessTypeDefault),
         business_registration_identifier |-> field("business_registration_identifier"),
         business_sector |-> field("business_sector"),
         website_url |-> field("website_url"),
         business_description |-> unwrap_or(field("business_description"),
                                            DescriptionPrefix \o profile_name),
         manager_name |-> field("manager_name")]

\* build_aggregated_merchant_request_from_profile
build_aggregated_merchant_request_from_profile(profile_name, metadata) ==
    LET meta_check == IF metadata = None
                      THEN Ok(TRUE)
                      ELSE validate_enhanced_wave_connector_metadata(unwrap(metadata), profile_name)
        request    == AggregatedMerchantRequestOf(profile_name, metadata)
        req_check  == validate_wave_aggregated_merchant_request(request)
    IN  IF is_err(meta_check) THEN meta_check
        ELSE IF is_err(req_check) THEN req_check
        ELSE Ok(request)

\* the request of an auto-creation taking the business type of the auth config
\* when the metadata has none
auto_create_request_AuthDefault(a, rd, meta) ==
    LET built == build_aggregated_merchant_request_from_profile(
                     ProfilePrefix \o rd.merchant_id, meta)
    IN  IF is_ok(built) /\ (meta = None \/ unwrap(meta).business_type = None)
        THEN Ok([built.val EXCEPT !.business_type = a.default_business_type])
        ELSE built

\* auto_create_aggregated_merchant up to its create call: the request it builds
auto_create_request(a, rd, meta) ==
    build_aggregated_merchant_request_from_profile(ProfilePrefix \o rd.merchant_id, meta)

\* ------------------------------------------------------------------------
\* WaveAuthType
\* ------------------------------------------------------------------------
DefaultCacheTtl == 3600

\* impl Default for WaveAggregatedMerchantConfig
WaveAggregatedMerchantConfigDefault ==
    [enabled |-> FALSE,
     auto_create_on_profile_creation |-> FALSE,
     default_business_type |-> WaveBusinessTypeDefault,
     cache_ttl_seconds |-> DefaultCacheTtl]

\* the conversion failing on a blob that does not deserialize
WaveAuthType_try_from_MalformedFails(auth_type) ==
    CASE auth_type.form = "HeaderKey" ->
            Ok([aggregated_merchants_enabled |-> FALSE,
                auto_create_aggregated_merchant |-> FALSE,
                default_business_type |-> WaveBusinessTypeDefault,
                cache_ttl_seconds |-> DefaultCacheTtl])
      [] auth_type.form = "BodyKey" /\ auth_type.key1.parses ->
            LET enhanced_config == auth_type.key1.config
            IN  Ok([aggregated_merchants_enabled |-> enhanced_config.enabled,
                    auto_create_aggregated_merchant |-> enhanced_config.auto_create_on_profile_creation,
                    default_business_type |-> enhanced_config.default_business_type,
                    cache_ttl_seconds |-> enhanced_config.cache_ttl_seconds])
      [] OTHER -> Err([kind |-> "FailedToObtainAuthType"])

\* impl TryFrom<&ConnectorAuthType> for WaveAuthType (the api key plays no
\* part in any decision and is left out)
WaveAuthType_try_from(auth_type) ==
    CASE auth_type.form = "HeaderKey" ->
            Ok([aggregated_merchants_enabled |-> FALSE,
                auto_create_aggregated_merchant |-> FALSE,
                default_business_type |-> WaveBusinessTypeDefault,
                cache_ttl_seconds |-> DefaultCacheTtl])
      [] auth_type.form = "BodyKey" ->
            LET enhanced_config == IF auth_type.key1.parses
                                   THEN auth_type.key1.config
                                   ELSE WaveAggregatedMerchantConfigDefault
            IN  Ok([aggregated_merchants_enabled |-> enhanced_config.enabled,
                    auto_create_aggregated_merchant |-> enhanced_config.auto_create_on_profile_creation,
                    default_business_type |-> enhanced_config.default_business_type,
                    cache_ttl_seconds |-> enhanced_config.cache_ttl_seconds])
      [] OTHER -> Err([kind |-> "FailedToObtainAuthType"])

\* ------------------------------------------------------------------------
\* Inputs of a call
\* ------------------------------------------------------------------------
AuthInputs ==
    [aggregated_merchants_enabled : BOOLEAN,
     auto_create_aggregated_merchant : BOOLEAN,
     default_business_type : {"ecommerce"},
     cache_ttl_seconds : {DefaultCacheTtl}]

ConfigInputs ==
    [enabled : BOOLEAN,
     auto_create_on_profile_creation : BOOLEAN,
     default_business_type : {"pos"},
     cache_ttl_seconds : {DefaultCacheTtl}]

\* ConnectorAuthType: key only, key + blob (well-formed or not), another form
ConnectorAuthTypeInputs ==
    {[form |-> "HeaderKey"], [form |-> "SignatureKey"],
     [form |-> "BodyKey", key1 |-> [parses |-> FALSE]]}
        \cup {[form |-> "BodyKey", key1 |-> [parses |-> TRUE, config |-> c]] :
                c \in ConfigInputs}

NoMetadata ==
    [aggregated_merchant_id |-> None,
     aggregated_merchant_name |-> None,
     auto_create_aggregated_merchant |-> None,
     business_type |-> None,
     business_description |-> None,
     manager_name |-> None,
     business_registration_identifier |-> None,
     business_sector |-> None,
     website_url |-> None,
     cache_enabled |-> None,
     cache_ttl_seconds |-> None]

MerchantIdInputs ==
    {<<"a", "m", "-", "1">>, <<"b", "a", "d", "-", "i", "d">>, <<"a", "m", "-">>}

\* metadata that differs in the id, the auto-create flag and the business type
IdMetadataInputs ==
    {[NoMetadata EXCEPT !.aggregated_merchant_id = id,
                        !.auto_create_aggregated_merchant = a,
                        !.business_type = bt] :
        id \in {None} \cup {Some(i) : i \in MerchantIdInputs},
        a \in {None, Some(TRUE), Some(FALSE)},
        bt \in {None, Some("pos")}}

\* one (field, value) deviation from an otherwise acceptable metadata
FieldDeviations ==
    {<<"business_description", Some(<<" ">>)>>,
     <<"business_description", Some(<<>>)>>,
     <<"business_description", Some(Repeat("x", MaxDescriptionLen))>>,
     <<"business_description", Some(Repeat("x", MaxDescriptionLen + 1))>>,
     <<"manager_name", Some(<<" ", " ">>)>>,
     <<"manager_name", Some(Repeat("x", MaxManagerNameLen + 1))>>,
     <<"website_url", Some(<<"f", "t", "p", ":", "/", "/", "x">>)>>,
     <<"website_url", Some(HttpsPrefix \o <<"x">>)>>,
     <<"website_url", Some(HttpPrefix \o Repeat("x", MaxWebsiteUrlLen))>>,
     <<"business_registration_identifier", Some(Repeat("x", MaxRegistrationIdLen + 1))>>,
     <<"business_sector", Some(Repeat("x", MaxSectorLen + 1))>>,
     <<"cache_ttl_seconds", Some(MinCacheTtl - 1)>>,
     <<"cache_ttl_seconds", Some(MinCacheTtl)>>,
     <<"cache_ttl_seconds", Some(MaxCacheTtl + 1)>>}

FieldMetadataInputs ==
    {[[NoMetadata EXCEPT !.auto_create_aggregated_merchant = a,
                         !.business_type = Some("pos")] EXCEPT ![d[1]] = d[2]] :
        a \in {None, Some(TRUE)}, d \in FieldDeviations}

MetadataInputs == IdMetadataInputs \cup FieldMetadataInputs

\* connector_meta_data: absent, a JSON value that is not a
\* WaveConnectorMetadata, or one that is
ConnectorMetaDataInputs ==
    {None, Some([parses |-> FALSE])}
        \cup {Some([parses |-> TRUE, metadata |-> m]) : m \in MetadataInputs}

\* PaymentsAuthorizeRouterData, the fields the resolution reads
RouterDataInputs ==
    [merchant_id : {<<"m", "1">>},
     connector_auth_type : ConnectorAuthTypeInputs,
     connector_meta_data : ConnectorMetaDataInputs]

\* AggregatedMerchantFallbackStrategy
FallbackStrategy == {"UseDefault", "CreateTemporary", "Skip"}

StrategyListInputs ==
    UNION {[1..n -> FallbackStrategy] : n \in 0..MaxStrategies}

Entries ==
    {"resolve_aggregated_merchant", "resolve_aggregated_merchant_for_payment",
     "resolve_with_fallback"}

\* ------------------------------------------------------------------------
\* The gateway: what one HTTP exchange can come back with
\* ------------------------------------------------------------------------
HttpKinds ==
    {"transport_error", "success", "success_undecodable", "non2xx",
     "non2xx_unreadable"}

\* ids the gateway hands out to newly created merchants
CreatedIds == {<<"a", "m", "-", "7">>, <<"a", "m", "-", "8">>}

\* the part of the service functions after send(): status check and decoding
\* of the body
HandleServiceResponse(resp) ==
    CASE resp.kind = "transport_error" -> Err([kind |-> "RequestEncodingFailed"])
      [] resp.kind = "success" -> Ok(resp.merchant)
      [] resp.kind = "success_undecodable" -> Err([kind |-> "ResponseDeserializationFailed"])
      [] resp.kind = "non2xx" -> Err([kind |-> "ProcessingStepFailed", detail |-> "api error"])
      [] resp.kind = "non2xx_unreadable" -> Err([kind |-> "ResponseDeserializationFailed"])

\* get_aggregated_merchant: does the id pass the format check, so that the
\* HTTP call is issued
get_sends_request(merchant_id) ==
    ~(is_empty(merchant_id) \/ ~starts_with(merchant_id, AmPrefix))

get_aggregated_merchant(merchant_id, resp) ==
    IF ~get_sends_request(merchant_id)
    THEN Err([kind |-> "InvalidConnectorConfig"])
    ELSE HandleServiceResponse(resp)

create_sends_request(request) ==
    is_ok(validate_wave_aggregated_merchant_request(request))

create_aggregated_merchant(request, resp) ==
    IF ~create_sends_request(request)
    THEN Err([kind |-> "ProcessingStepFailed", detail |-> "InvalidConfiguration"])
    ELSE HandleServiceResponse(resp)

\* update_aggregated_merchant: do the id and the request pass its checks, so
\* that the HTTP call is issued
update_sends_request(merchant_id, request) ==
    /\ ~(is_empty(merchant_id) \/ ~starts_with(merchant_id, AmPrefix))
    /\ ~(is_some(request.name)
            /\ (is_empty(unwrap(request.name)) \/ len(unwrap(request.name)) > MaxNameLen))
    /\ ~(is_some(request.business_description)
            /\ (is_empty(unwrap(request.business_description))
                   \/ len(unwrap(request.business_description)) > MaxDescriptionLen))

update_aggregated_merchant(merchant_id, request, resp) ==
    IF ~update_sends_request(merchant_id, request)
    THEN Err([kind |-> "InvalidConnectorConfig"])
    ELSE HandleServiceResponse(resp)

delete_sends_request(merchant_id) ==
    ~(is_empty(merchant_id) \/ ~starts_with(merchant_id, AmPrefix))

\* delete_aggregated_merchant: a 2xx answer is Ok(()) whatever its body
delete_aggregated_merchant(merchant_id, resp) ==
    IF ~delete_sends_request(merchant_id)
    THEN Err([kind |-> "InvalidConnectorConfig"])
    ELSE IF resp.kind \in {"success", "success_undecodable"}
    THEN Ok("unit")
    ELSE HandleServiceResponse(resp)

\* err.downcast_ref::<ConnectorError>(): the topmost ConnectorError frame of
\* the report, which is the context the report was last changed to
downcast_ref(err) == err.kind

\* merchant_exists reporting false for every failure of the get
merchant_exists_AnyErrorIsFalse(merchant_id, resp) ==
    IF is_ok(get_aggregated_merchant(merchant_id, resp)) THEN Ok(TRUE) ELSE Ok(FALSE)

\* merchant_exists
merchant_exists(merchant_id, resp) ==
    LET got == get_aggregated_merchant(merchant_id, resp)
    IN  IF is_ok(got) THEN Ok(TRUE)
        ELSE IF downcast_ref(got.err) = "ProcessingStepFailed" THEN Ok(FALSE)
        ELSE got

\* extract_wave_connector_metadata
extract_wave_connector_metadata(rd) ==
    IF rd.connector_meta_data = None THEN None
    ELSE IF unwrap(rd.connector_meta_data).parses
         THEN Some(unwrap(rd.connector_meta_data).metadata)
         ELSE None

\* extract_aggregated_merchant_id
extract_aggregated_merchant_id(rd) ==
    IF rd.connector_meta_data # None /\ unwrap(rd.connector_meta_data).parses
          /\ is_some(unwrap(rd.connector_meta_data).metadata.aggregated_merchant_id)
    THEN Ok(unwrap(rd.connector_meta_data).metadata.aggregated_merchant_id)
    ELSE Ok(None)

\* ------------------------------------------------------------------------
\* The create-session request of an authorize call
\* ------------------------------------------------------------------------
DecimalDigits == <<"0", "1", "2", "3", "4", "5", "6", "7", "8", "9">>

\* i64::to_string of a value that is not negative
RECURSIVE Digits(_)
Digits(n) ==
    IF n < 10 THEN <<DecimalDigits[n + 1]>>
    ELSE Digits(n \div 10) \o <<DecimalDigits[(n % 10) + 1]>>

\* MinorUnit::to_string
to_string(n) == IF n < 0 THEN <<"-">> \o Digits(-n) ELSE Digits(n)

\* Currency::to_string: the ISO 4217 code of the variant
Currency_to_string(c) ==
    CASE c = "XOF" -> <<"X", "O", "F">>
      [] c = "EUR" -> <<"E", "U", "R">>

\* impl TryFrom<(&CurrencyUnit, Currency, MinorUnit, T)> for WaveRouterData<T>
WaveRouterData_try_from(amount, item) == Ok([amount |-> amount, router_data |-> item])

\* the customer of the request: present when the caller gave an email
WaveCustomerOf(rd) ==
    IF rd.email = None THEN None
    ELSE Some([name  |-> IF rd.billing_address = None THEN None
                         ELSE unwrap(rd.billing_address).full_name,
               email |-> rd.email])

\* the payload of the builder, given the return URL it uses
WaveCheckoutSessionRequestOf(item, return_url) ==
    LET rd == item.router_data
        extracted == extract_aggregated_merchant_id(rd)
    IN  [amount |-> to_string(item.amount),
         currency |-> Currency_to_string(rd.currency),
         error_url |-> Some(return_url),
         success_url |-> Some(return_url),
         reference |-> Some(rd.connector_request_reference_id),
         aggregated_merchant_id |-> IF is_ok(extracted) THEN extracted.val ELSE None,
         customer |-> WaveCustomerOf(rd)]

\* the builder with a return URL of its own in place of an absent one
WaveCheckoutSessionRequest_try_from_DefaultUrl(item) ==
    Ok(WaveCheckoutSessionRequestOf(
           item, unwrap_or(item.router_data.router_return_url, HttpsPrefix)))

\* impl TryFrom<&WaveRouterData<&PaymentsAuthorizeRouterData>> for
\* WaveCheckoutSessionRequest
WaveCheckoutSessionRequest_try_from(item) ==
    IF item.router_data.router_return_url = None
    THEN Err([kind |-> "MissingRequiredField", field_name |-> "return_url"])
    ELSE Ok(WaveCheckoutSessionRequestOf(item, unwrap(item.router_data.router_return_url)))

\* ConnectorIntegration<Authorize>::get_request_body
get_request_body(req) ==
    LET built == WaveCheckoutSessionRequest_try_from(
                     WaveRouterData_try_from(req.minor_amount, req).val)
    IN  IF is_err(built) THEN built
        ELSE IF is_some(built.val.aggregated_merchant_id) THEN Ok(built.val)
        ELSE LET a    == WaveAuthType_try_from(req.connector_auth_type)
                 meta == extract_wave_connector_metadata(req)
             IN  IF is_err(a) THEN a
                 ELSE IF a.val.aggregated_merchants_enabled /\ meta # None
                         /\ is_some(unwrap(meta).aggregated_merchant_id)
                 THEN Ok([built.val EXCEPT !.aggregated_merchant_id =
                                               unwrap(meta).aggregated_merchant_id])
                 ELSE Ok(built.val)

\* ------------------------------------------------------------------------
\* Gateway responses and their transformation
\* ------------------------------------------------------------------------
\* enum WavePaymentStatus under #[serde(rename_all = "lowercase")]: the JSON
\* string of each variant
WavePaymentStatus ==
    [created |-> "Created", pending |-> "Pending", completed |-> "Completed",
     failed |-> "Failed", cancelled |-> "Cancelled"]

\* enum WaveRefundStatus under #[serde(rename_all = "lowercase")]
WaveRefundStatus ==
    [processing |-> "Processing", completed |-> "Completed",
     failed |-> "Failed", cancelled |-> "Cancelled"]

\* the mapping with Cancelled taken for a failure
AttemptStatus_from_CancelledIsFailure(status) ==
    CASE status \in {"Created", "Pending"} -> "Pending"
      [] status = "Completed" -> "Charged"
      [] status \in {"Failed", "Cancelled"} -> "Failure"

\* impl From<WavePaymentStatus> for AttemptStatus
AttemptStatus_from(status) ==
    CASE status \in {"Created", "Pending"} -> "Pending"
      [] status = "Completed" -> "Charged"
      [] status = "Failed" -> "Failure"
      [] status = "Cancelled" -> "Voided"

\* impl From<WaveRefundStatus> for RefundStatus
RefundStatus_from(status) ==
    CASE status = "Processing" -> "Pending"
      [] status = "Completed" -> "Success"
      [] status = "Failed" -> "Failure"
      [] status = "Cancelled" -> "Failure"

\* The response structs as serde reads them: the fields that must be present,
\* the Option fields, and the enum of the status field.
WaveCheckoutSessionResponse ==
    [required |-> {"id", "status", "amount", "currency"},
     optional |-> {"launch_url", "reference"},
     status   |-> WavePaymentStatus]

WavePaymentStatusResponse ==
    [required |-> {"id", "status", "amount", "currency"},
     optional |-> {"reference", "launch_url"},
     status   |-> WavePaymentStatus]

WavePaymentsCancelResponse ==
    [required |-> {"id", "status"},
     optional |-> {},
     status   |-> WavePaymentStatus]

WaveRefundResponse ==
    [required |-> {"id", "status", "amount", "currency"},
     optional |-> {"transaction_id"},
     status   |-> WaveRefundStatus]

\* deserialization that takes the first variant for a status it does not know
parse_struct_UnknownStatusDefaults(body, type) ==
    IF ~body.json THEN Err("ParsingFailed")
    ELSE IF ~(type.required \subseteq DOMAIN body.object) THEN Err("ParsingFailed")
    ELSE Ok([k \in type.required \cup type.optional |->
                IF k = "status"
                THEN IF body.object.status \in DOMAIN type.status
                     THEN type.status[body.object.status]
                     ELSE type.status[CHOOSE name \in DOMAIN type.status : TRUE]
                ELSE IF k \in DOMAIN body.object THEN body.object[k]
                ELSE None])

\* res.response.parse_struct(..): serde_json over the bytes of the body. A key
\* the object leaves out is None for an Option field and an error otherwise.
parse_struct(body, type) ==
    IF ~body.json THEN Err("ParsingFailed")
    ELSE IF ~(type.required \subseteq DOMAIN body.object) THEN Err("ParsingFailed")
    ELSE IF body.object.status \notin DOMAIN type.status THEN Err("ParsingFailed")
    ELSE Ok([k \in type.required \cup type.optional |->
                IF k = "status" THEN type.status[body.object.status]
                ELSE IF k \in DOMAIN body.object THEN body.object[k]
                ELSE None])

\* Url::parse of a launch URL: an absolute http or https URL with a host
Url_parse(s) ==
    IF starts_with(s, HttpsPrefix) /\ Len(s) > Len(HttpsPrefix)
    THEN Ok([scheme |-> "https", rest |-> SubSeq(s, Len(HttpsPrefix) + 1, Len(s))])
    ELSE IF starts_with(s, HttpPrefix) /\ Len(s) > Len(HttpPrefix)
    THEN Ok([scheme |-> "http", rest |-> SubSeq(s, Len(HttpPrefix) + 1, Len(s))])
    ELSE Err("RelativeUrlWithoutBase")

\* RedirectForm::from((url, method))
RedirectForm_from(url, method) == [endpoint |-> url, method |-> method]

\* item.response.launch_url.and_then(|url_str| Url::parse(&url_str).map(..).ok())
redirection_data_of(launch_url) ==
    IF launch_url = None THEN None
    ELSE LET parsed == Url_parse(unwrap(launch_url))
         IN  IF is_ok(parsed) THEN Some(RedirectForm_from(parsed.val, "Get")) ELSE None

\* PaymentsResponseData::TransactionResponse { .. }
TransactionResponse(resource_id, redirection_data, reference) ==
    [resource_id |-> resource_id,
     redirection_data |-> redirection_data,
     mandate_reference |-> None,
     connector_metadata |-> None,
     network_txn_id |-> None,
     connector_response_reference_id |-> reference,
     incremental_authorization_allowed |-> None,
     charges |-> None]

\* the checkout-session transformer failing on a launch URL that does not parse
RouterData_try_from_CheckoutSession_UrlMustParse(item) ==
    IF item.response.launch_url # None /\ is_err(Url_parse(unwrap(item.response.launch_url)))
    THEN Err([kind |-> "ResponseHandlingFailed"])
    ELSE Ok([item.data EXCEPT
                !.status = AttemptStatus_from(item.response.status),
                !.response = Ok(TransactionResponse(
                                    item.response.id,
                                    redirection_data_of(item.response.launch_url),
                                    item.response.reference))])

\* impl TryFrom<ResponseRouterData<F, WaveCheckoutSessionResponse, T,
\* PaymentsResponseData>> for RouterData<F, T, PaymentsResponseData>
RouterData_try_from_CheckoutSession(item) ==
    Ok([item.data EXCEPT
           !.status = AttemptStatus_from(item.response.status),
           !.response = Ok(TransactionResponse(
                               item.response.id,
                               redirection_data_of(item.response.launch_url),
                               item.response.reference))])

\* impl TryFrom<ResponseRouterData<F, WavePaymentsCancelResponse, T,
\* PaymentsResponseData>> for RouterData<F, T, PaymentsResponseData>
RouterData_try_from_Cancel(item) ==
    Ok([item.data EXCEPT
           !.status = AttemptStatus_from(item.response.status),
           !.response = Ok(TransactionResponse(item.response.id, None, None))])

\* impl TryFrom<ResponseRouterData<F, WavePaymentStatusResponse, T,
\* PaymentsResponseData>> for RouterData<F, T, PaymentsResponseData>
RouterData_try_from_PaymentStatus(item) ==
    Ok([item.data EXCEPT
           !.status = AttemptStatus_from(item.response.status),
           !.response = Ok(TransactionResponse(
                               item.response.id,
                               redirection_data_of(item.response.launch_url),
                               item.response.reference))])

\* the refund transformer setting the attempt status as well
RefundsRouterData_try_from_SetsStatus(item) ==
    Ok([item.data EXCEPT
           !.status = "Pending",
           !.response = Ok([connector_refund_id |-> item.response.id,
                            refund_status |-> RefundStatus_from(item.response.status)])])

\* impl TryFrom<RefundsResponseRouterData<F, WaveRefundResponse>> for
\* RefundsRouterData<F>
RefundsRouterData_try_from(item) ==
    Ok([item.data EXCEPT
           !.response = Ok([connector_refund_id |-> item.response.id,
                            refund_status |-> RefundStatus_from(item.response.status)])])

\* what every handle_response does with a body that does not deserialize
ResponseDeserializationFailed == Err([kind |-> "ResponseDeserializationFailed"])

\* the item the transformer is given
ResponseRouterData(response, data, res) ==
    [response |-> response, data |-> data, http_code |-> res.status_code]

\* ConnectorIntegration<Authorize>::handle_response
Authorize_handle_response(data, res) ==
    LET response == parse_struct(res.response, WaveCheckoutSessionResponse)
    IN  IF is_err(response) THEN ResponseDeserializationFailed
        ELSE RouterData_try_from_CheckoutSession(ResponseRouterData(response.val, data, res))

\* ConnectorIntegration<PSync>::handle_response
PSync_handle_response(data, res) ==
    LET response == parse_struct(res.response, WavePaymentStatusResponse)
    IN  IF is_err(response) THEN ResponseDeserializationFailed
        ELSE RouterData_try_from_PaymentStatus(ResponseRouterData(response.val, data, res))

\* ConnectorIntegration<Void>::handle_response
Void_handle_response(data, res) ==
    LET response == parse_struct(res.response, WavePaymentsCancelResponse)
    IN  IF is_err(response) THEN ResponseDeserializationFailed
        ELSE RouterData_try_from_Cancel(ResponseRouterData(response.val, data, res))

\* ConnectorIntegration<Execute>::handle_response
Execute_handle_response(data, res) ==
    LET response == parse_struct(res.response, WaveRefundResponse)
    IN  IF is_err(response) THEN ResponseDeserializationFailed
        ELSE RefundsRouterData_try_from(ResponseRouterData(response.val, data, res))

\* ConnectorIntegration<RSync>::handle_response
RSync_handle_response(data, res) ==
    LET response == parse_struct(res.response, WaveRefundResponse)
    IN  IF is_err(response) THEN ResponseDeserializationFailed
        ELSE RefundsRouterData_try_from(ResponseRouterData(response.val, data, res))

\* ------------------------------------------------------------------------
\* State
\* ------------------------------------------------------------------------
VARIABLES
    entry,                \* the function the caller invoked
    auth,                 \* the WaveAuthType of the call
    router_data,          \* the caller's PaymentsAuthorizeRouterData
    fallback_strategies,  \* the caller's strategy list
    pc,                   \* where the call is suspended
    retry_count,          \* validate_aggregated_merchant's loop counter
    strategy_index,       \* resolve_with_fallback's position in the list (0: primary resolution)
    ac_metadata,          \* the metadata argument of auto_create_aggregated_merchant
    result,               \* what the invoked function returned
    calls,                \* the service calls made so far, in order
    response,             \* what the latest service call came back with
    call,                 \* a function called on its own: its name, arguments, gateway answer
    ret,                  \* what that function returned
    http,                 \* the HTTP requests that function sent, in order
    resolutions,          \* concurrent resolutions for one profile: each one's position and result
    gateway               \* the aggregated merchants the gateway has created, in order

resolver_vars ==
    <<entry, auth, router_data, fallback_strategies, pc, retry_count,
      strategy_index, ac_metadata, result, calls, response>>

\* the state of a single call of a service function or of a pure function
call_vars == <<call, ret, http>>

\* the state of resolutions running concurrently, and of the gateway they share
race_vars == <<resolutions, gateway>>

vars == <<resolver_vars, call_vars, race_vars>>

Resolutions == 1..NumResolutions

NotStarted == [pc |-> "idle", retry_count |-> 0, posts |-> 0, result |-> Pending]

inputs == <<entry, auth, router_data, fallback_strategies>>

\* one entry of calls: the service function called, whether it got as far as
\* sending its HTTP request, and the fallback position it was called from
ServiceCall(op, sent) == [op |-> op, http |-> sent, at |-> strategy_index]

\* the outcome of a service call: the kind of HTTP exchange, if there was
\* one, and the id of the merchant in a decoded 2xx body
ServiceResponse(op, sent, resp) ==
    [op |-> op,
     kind |-> IF sent THEN resp.kind ELSE "not_sent",
     id |-> IF sent /\ resp.kind = "success" THEN Some(resp.merchant.id) ELSE None]

NoResponse == [op |-> "none", kind |-> "none", id |-> None]

metadata == extract_wave_connector_metadata(router_data)

has_merchant_id(m) == m # None /\ is_some(unwrap(m).aggregated_merchant_id)

configured_merchant_id == unwrap(unwrap(metadata).aggregated_merchant_id)

yields_id(r) == is_ok(r) /\ is_some(r.val)

\* the flag taken from the auth config alone
auto_create_AuthOnly(m, a) == a.auto_create_aggregated_merchant

\* let auto_create = metadata.and_then(|m| m.auto_create_aggregated_merchant)
\*                           .unwrap_or(auth.auto_create_aggregated_merchant)
auto_create(m, a) ==
    unwrap_or(IF m = None THEN None ELSE unwrap(m).auto_create_aggregated_merchant,
              a.auto_create_aggregated_merchant)

\* Wave is a unit struct: nothing is held between calls
Init ==
    /\ entry = "none"
    /\ auth = WaveAuthType_try_from([form |-> "HeaderKey"]).val
    /\ router_data = [merchant_id |-> <<>>,
                      connector_auth_type |-> [form |-> "HeaderKey"],
                      connector_meta_data |-> None]
    /\ fallback_strategies = <<>>
    /\ pc = "idle"
    /\ retry_count = 0
    /\ strategy_index = 0
    /\ ac_metadata = None
    /\ result = Pending
    /\ calls = <<>>
    /\ response = NoResponse
    /\ call = [fn |-> "none"]
    /\ ret = Pending
    /\ http = <<>>
    /\ resolutions = [p \in Resolutions |-> NotStarted]
    /\ gateway = <<>>

\* ------------------------------------------------------------------------
\* Returns
\* ------------------------------------------------------------------------
\* the return with resolve_with_fallback handing an error on to its caller
ReturnFromResolve_ErrorPropagates(r) ==
    IF entry = "resolve_with_fallback" /\ ~yields_id(r) /\ ~is_err(r)
    THEN /\ pc' = "fallback"
         /\ strategy_index' = 1
         /\ result' = result
    ELSE /\ pc' = "done"
         /\ result' = r
         /\ strategy_index' = strategy_index

\* resolve_aggregated_merchant returns r to its caller
ReturnFromResolve(r) ==
    IF entry = "resolve_with_fallback" /\ ~yields_id(r)
    THEN /\ pc' = "fallback"
         /\ strategy_index' = 1
         /\ result' = result
    ELSE /\ pc' = "done"
         /\ result' = r
         /\ strategy_index' = strategy_index

\* the return with CreateTemporary tried a second time after its first failure
ReturnFromAutoCreate_RetriesOnce(r) ==
    IF strategy_index = 0
    THEN ReturnFromResolve(r)
    ELSE IF yields_id(r)
    THEN /\ pc' = "done"
         /\ result' = r
         /\ strategy_index' = strategy_index
    ELSE /\ pc' = "fallback"
         /\ strategy_index' =
               IF \E i \in DOMAIN calls : calls[i].op = "create" /\ calls[i].at = strategy_index
               THEN strategy_index + 1
               ELSE strategy_index
         /\ result' = result

\* auto_create_aggregated_merchant returns r to its caller
ReturnFromAutoCreate(r) ==
    IF strategy_index = 0
    THEN ReturnFromResolve(r)
    ELSE IF yields_id(r)
    THEN /\ pc' = "done"
         /\ result' = r
         /\ strategy_index' = strategy_index
    ELSE /\ pc' = "fallback"
         /\ strategy_index' = strategy_index + 1
         /\ result' = result

\* ------------------------------------------------------------------------
\* Operations
\* ------------------------------------------------------------------------
\* the caller invokes one of the resolution functions; the resolver's
\* functions take the auth config as an argument and never read the request's
\* connector_auth_type; the connector's method builds it from that field
Invoke ==
    /\ pc = "idle"
    /\ \E e \in Entries, rd \in RouterDataInputs :
        /\ entry' = e
        /\ router_data' = rd
        /\ IF e = "resolve_aggregated_merchant_for_payment"
           THEN /\ auth' = auth
                /\ pc' = "for_payment"
           ELSE /\ rd.connector_auth_type = [form |-> "HeaderKey"]
                /\ auth' \in AuthInputs
                /\ pc' = "resolve"
        /\ fallback_strategies' \in
              (IF e = "resolve_with_fallback" THEN StrategyListInputs ELSE {<<>>})
    /\ UNCHANGED <<retry_count, strategy_index, ac_metadata, result, calls, response>>
    /\ UNCHANGED <<call_vars, race_vars>>

\* Wave::resolve_aggregated_merchant_for_payment
ResolveForPayment ==
    /\ pc = "for_payment"
    /\ LET built == WaveAuthType_try_from(router_data.connector_auth_type)
       IN  IF is_err(built)
           THEN pc' = "done" /\ result' = built /\ auth' = auth
           ELSE /\ auth' = built.val
                /\ IF ~built.val.aggregated_merchants_enabled
                   THEN pc' = "done" /\ result' = Ok(None)
                   ELSE pc' = "resolve" /\ result' = result
    /\ UNCHANGED <<entry, router_data, fallback_strategies, retry_count,
                   strategy_index, ac_metadata, calls, response>>
    /\ UNCHANGED <<call_vars, race_vars>>

\* resolve_aggregated_merchant without its feature-flag check
Resolve_NoFlagCheck ==
    /\ pc = "resolve"
    /\ pc' = IF has_merchant_id(metadata) THEN "validate" ELSE "decide"
    /\ retry_count' = 0
    /\ UNCHANGED <<inputs, result, strategy_index, ac_metadata, calls, response>>
    /\ UNCHANGED <<call_vars, race_vars>>

\* resolve_aggregated_merchant up to the first remote call: the feature
\* flag, then the metadata's merchant id
Resolve ==
    /\ pc = "resolve"
    /\ IF ~auth.aggregated_merchants_enabled
       THEN ReturnFromResolve(Ok(None))
       ELSE /\ pc' = IF has_merchant_id(metadata) THEN "validate" ELSE "decide"
            /\ UNCHANGED <<result, strategy_index>>
    /\ retry_count' = 0
    /\ UNCHANGED <<inputs, ac_metadata, calls, response>>
    /\ UNCHANGED <<call_vars, race_vars>>

\* the retry loop handing the last attempt's error to the caller, which
\* propagates it
ValidateAttempt_ErrorPropagates ==
    /\ pc = "validate"
    /\ retry_count < max_retries
    /\ \E kind \in HttpKinds :
        LET id   == configured_merchant_id
            resp == [kind |-> kind, merchant |-> [id |-> id]]
            got  == get_aggregated_merchant(id, resp)
        IN  /\ calls' = Append(calls, ServiceCall("get", get_sends_request(id)))
            /\ response' = ServiceResponse("get", get_sends_request(id), resp)
            /\ IF is_ok(got)
               THEN /\ ReturnFromResolve(Ok(Some(id)))
                    /\ retry_count' = retry_count
               ELSE /\ retry_count' = retry_count + 1
                    /\ IF retry_count + 1 >= max_retries
                       THEN ReturnFromResolve(got)
                       ELSE pc' = "validate" /\ UNCHANGED <<result, strategy_index>>
    /\ UNCHANGED <<inputs, ac_metadata>>
    /\ UNCHANGED <<call_vars, race_vars>>

\* the resolution going on to step 3 although the id was validated
ValidateAttempt_SuccessIgnored ==
    /\ pc = "validate"
    /\ retry_count < max_retries
    /\ \E kind \in HttpKinds :
        LET id   == configured_merchant_id
            resp == [kind |-> kind, merchant |-> [id |-> id]]
            got  == get_aggregated_merchant(id, resp)
        IN  /\ calls' = Append(calls, ServiceCall("get", get_sends_request(id)))
            /\ response' = ServiceResponse("get", get_sends_request(id), resp)
            /\ IF is_ok(got)
               THEN /\ pc' = "decide"
                    /\ UNCHANGED <<result, strategy_index, retry_count>>
               ELSE /\ retry_count' = retry_count + 1
                    /\ pc' = IF retry_count + 1 >= max_retries THEN "decide" ELSE "validate"
                    /\ UNCHANGED <<result, strategy_index>>
    /\ UNCHANGED <<inputs, ac_metadata>>
    /\ UNCHANGED <<call_vars, race_vars>>

\* one iteration of validate_aggregated_merchant's retry loop, and what
\* resolve_aggregated_merchant does with the value it returns
ValidateAttempt ==
    /\ pc = "validate"
    /\ retry_count < max_retries
    /\ \E kind \in HttpKinds :
        LET id   == configured_merchant_id
            resp == [kind |-> kind, merchant |-> [id |-> id]]
            got  == get_aggregated_merchant(id, resp)
        IN  /\ calls' = Append(calls, ServiceCall("get", get_sends_request(id)))
            /\ response' = ServiceResponse("get", get_sends_request(id), resp)
            /\ IF is_ok(got)
               THEN \* Ok(true) => return Ok(Some(aggregated_merchant_id.clone()))
                    /\ ReturnFromResolve(Ok(Some(id)))
                    /\ retry_count' = retry_count
               ELSE \* Ok(false) after the last retry: on to step 3
                    /\ retry_count' = retry_count + 1
                    /\ pc' = IF retry_count + 1 >= max_retries THEN "decide" ELSE "validate"
                    /\ UNCHANGED <<result, strategy_index>>
    /\ UNCHANGED <<inputs, ac_metadata>>
    /\ UNCHANGED <<call_vars, race_vars>>

\* step 3 of resolve_aggregated_merchant: the auto-create decision
AutoCreateDecision ==
    /\ pc = "decide"
    /\ IF auto_create(metadata, auth)
       THEN /\ pc' = "auto_create"
            /\ ac_metadata' = metadata
            /\ UNCHANGED <<result, strategy_index>>
       ELSE /\ ReturnFromResolve(Ok(None))
            /\ ac_metadata' = ac_metadata
    /\ UNCHANGED <<inputs, retry_count, calls, response>>
    /\ UNCHANGED <<call_vars, race_vars>>

\* auto_create_aggregated_merchant returning the create call's error
AutoCreate_FailureIsError ==
    /\ pc = "auto_create"
    /\ \E built \in {build_aggregated_merchant_request_from_profile(
                         ProfilePrefix \o router_data.merchant_id, ac_metadata)} :
           IF is_err(built)
           THEN /\ ReturnFromAutoCreate(Err(ConnectorErrorFrom(built.err)))
                /\ UNCHANGED <<calls, response>>
           ELSE \E kind \in HttpKinds, new_id \in CreatedIds :
                   LET resp    == [kind |-> kind, merchant |-> [id |-> new_id]]
                       created == create_aggregated_merchant(built.val, resp)
                   IN  /\ calls' = Append(calls,
                              ServiceCall("create", create_sends_request(built.val)))
                       /\ response' = ServiceResponse("create",
                              create_sends_request(built.val), resp)
                       /\ IF is_ok(created)
                          THEN ReturnFromAutoCreate(Ok(Some(created.val.id)))
                          ELSE ReturnFromAutoCreate(created)
    /\ UNCHANGED <<inputs, retry_count, ac_metadata>>
    /\ UNCHANGED <<call_vars, race_vars>>

\* auto_create_aggregated_merchant
AutoCreate ==
    /\ pc = "auto_create"
    /\ \E built \in {build_aggregated_merchant_request_from_profile(
                         ProfilePrefix \o router_data.merchant_id, ac_metadata)} :
           IF is_err(built)
           THEN /\ ReturnFromAutoCreate(Err(ConnectorErrorFrom(built.err)))
                /\ UNCHANGED <<calls, response>>
           ELSE \E kind \in HttpKinds, new_id \in CreatedIds :
                   LET resp    == [kind |-> kind, merchant |-> [id |-> new_id]]
                       created == create_aggregated_merchant(built.val, resp)
                   IN  /\ calls' = Append(calls,
                              ServiceCall("create", create_sends_request(built.val)))
                       /\ response' = ServiceResponse("create",
                              create_sends_request(built.val), resp)
                       /\ IF is_ok(created)
                          THEN ReturnFromAutoCreate(Ok(Some(created.val.id)))
                          ELSE ReturnFromAutoCreate(Ok(None))
    /\ UNCHANGED <<inputs, retry_count, ac_metadata>>
    /\ UNCHANGED <<call_vars, race_vars>>

\* the loop ending at UseDefault instead of moving on
FallbackStep_UseDefaultStops ==
    /\ pc = "fallback"
    /\ IF strategy_index > Len(fallback_strategies)
       THEN /\ pc' = "done"
            /\ result' = Ok(None)
            /\ UNCHANGED <<strategy_index, ac_metadata>>
       ELSE LET strategy == fallback_strategies[strategy_index]
            IN  CASE strategy = "UseDefault" ->
                       /\ pc' = "done"
                       /\ result' = Ok(None)
                       /\ UNCHANGED <<strategy_index, ac_metadata>>
                  [] strategy = "CreateTemporary" ->
                       /\ pc' = "auto_create"
                       /\ ac_metadata' = None
                       /\ UNCHANGED <<result, strategy_index>>
                  [] strategy = "Skip" ->
                       /\ pc' = "done"
                       /\ result' = Ok(None)
                       /\ UNCHANGED <<strategy_index, ac_metadata>>
    /\ UNCHANGED <<inputs, retry_count, calls, response>>
    /\ UNCHANGED <<call_vars, race_vars>>

\* the loop treating Skip like UseDefault
FallbackStep_SkipContinues ==
    /\ pc = "fallback"
    /\ IF strategy_index > Len(fallback_strategies)
       THEN /\ pc' = "done"
            /\ result' = Ok(None)
            /\ UNCHANGED <<strategy_index, ac_metadata>>
       ELSE LET strategy == fallback_strategies[strategy_index]
            IN  CASE strategy = "UseDefault" ->
                       /\ strategy_index' = strategy_index + 1
                       /\ UNCHANGED <<pc, result, ac_metadata>>
                  [] strategy = "CreateTemporary" ->
                       /\ pc' = "auto_create"
                       /\ ac_metadata' = None
                       /\ UNCHANGED <<result, strategy_index>>
                  [] strategy = "Skip" ->
                       /\ strategy_index' = strategy_index + 1
                       /\ UNCHANGED <<pc, result, ac_metadata>>
    /\ UNCHANGED <<inputs, retry_count, calls, response>>
    /\ UNCHANGED <<call_vars, race_vars>>

\* one iteration of resolve_with_fallback's loop over the strategies
FallbackStep ==
    /\ pc = "fallback"
    /\ IF strategy_index > Len(fallback_strategies)
       THEN /\ pc' = "done"
            /\ result' = Ok(None)
            /\ UNCHANGED <<strategy_index, ac_metadata>>
       ELSE LET strategy == fallback_strategies[strategy_index]
            IN  CASE strategy = "UseDefault" ->
                       /\ strategy_index' = strategy_index + 1
                       /\ UNCHANGED <<pc, result, ac_metadata>>
                  [] strategy = "CreateTemporary" ->
                       /\ pc' = "auto_create"
                       /\ ac_metadata' = None
                       /\ UNCHANGED <<result, strategy_index>>
                  [] strategy = "Skip" ->
                       /\ pc' = "done"
                       /\ result' = Ok(None)
                       /\ UNCHANGED <<strategy_index, ac_metadata>>
    /\ UNCHANGED <<inputs, retry_count, calls, response>>
    /\ UNCHANGED <<call_vars, race_vars>>

Next ==
    \/ Invoke
    \/ ResolveForPayment
    \/ Resolve
    \/ ValidateAttempt
    \/ AutoCreateDecision
    \/ AutoCreate
    \/ FallbackStep

Spec == Init /\ [][Next]_vars

\* the resolver's futures are polled to completion and every request sent to
\* the gateway comes back, with an answer or with a transport error
LiveSpec == Spec /\ WF_vars(Next)

\* ------------------------------------------------------------------------
\* WaveAggregatedMerchantService called on its own
\* ------------------------------------------------------------------------
ServiceIdInputs == MerchantIdInputs \cup {<<>>}

\* a WaveAggregatedMerchantRequest that passes every check
ValidRequest ==
    [name |-> <<"S", "h", "o", "p">>,
     business_type |-> "pos",
     business_registration_identifier |-> None,
     business_sector |-> None,
     website_url |-> None,
     business_description |-> <<"s", "h", "o", "e", "s">>,
     manager_name |-> None]

\* one (field, value) deviation from it
RequestDeviations ==
    {<<"name", <<>>>>,
     <<"name", Repeat("x", MaxNameLen + 1)>>,
     <<"business_description", <<>>>>,
     <<"business_description", <<" ", "\t">>>>,
     <<"business_description", Repeat("x", MaxDescriptionLen)>>,
     <<"business_description", Repeat("x", MaxDescriptionLen + 1)>>,
     <<"manager_name", Some(<<" ">>)>>,
     <<"manager_name", Some(Repeat("x", MaxManagerNameLen))>>,
     <<"manager_name", Some(Repeat("x", MaxManagerNameLen + 1))>>,
     <<"website_url", Some(<<"f", "t", "p", ":", "/", "/", "x">>)>>,
     <<"website_url", Some(HttpPrefix \o <<"x">>)>>,
     <<"website_url", Some(HttpsPrefix \o Repeat("x", MaxWebsiteUrlLen))>>,
     <<"business_registration_identifier", Some(Repeat("x", MaxRegistrationIdLen + 1))>>,
     <<"business_sector", Some(Repeat("x", MaxSectorLen + 1))>>}

CreateRequestInputs ==
    {ValidRequest} \cup {[ValidRequest EXCEPT ![d[1]] = d[2]] : d \in RequestDeviations}

\* a WaveAggregatedMerchantUpdateRequest that changes nothing
NoUpdate ==
    [name |-> None,
     business_type |-> None,
     business_registration_identifier |-> None,
     business_sector |-> None,
     website_url |-> None,
     business_description |-> None,
     manager_name |-> None]

\* every field of an update request is optional
UpdateRequestInputs ==
    {NoUpdate} \cup
    {[NoUpdate EXCEPT ![d[1]] =
          IF d[1] \in {"name", "business_description"} THEN Some(d[2]) ELSE d[2]] :
        d \in RequestDeviations}

\* what the gateway can answer to one request
GatewayAnswers ==
    {[kind |-> k, merchant |-> [id |-> <<"a", "m", "-", "1">>]] : k \in HttpKinds}

HttpRequest(method, sent) == IF sent THEN <<method>> ELSE <<>>

CreateAggregatedMerchant ==
    /\ call.fn = "none"
    /\ \E request \in CreateRequestInputs, resp \in GatewayAnswers :
        /\ call' = [fn |-> "create_aggregated_merchant", request |-> request, resp |-> resp]
        /\ ret' = create_aggregated_merchant(request, resp)
        /\ http' = HttpRequest("POST", create_sends_request(request))
    /\ UNCHANGED <<resolver_vars, race_vars>>

GetAggregatedMerchant ==
    /\ call.fn = "none"
    /\ \E merchant_id \in ServiceIdInputs, resp \in GatewayAnswers :
        /\ call' = [fn |-> "get_aggregated_merchant", merchant_id |-> merchant_id,
                    resp |-> resp]
        /\ ret' = get_aggregated_merchant(merchant_id, resp)
        /\ http' = HttpRequest("GET", get_sends_request(merchant_id))
    /\ UNCHANGED <<resolver_vars, race_vars>>

UpdateAggregatedMerchant ==
    /\ call.fn = "none"
    /\ \E merchant_id \in ServiceIdInputs, request \in UpdateRequestInputs,
          resp \in GatewayAnswers :
        /\ call' = [fn |-> "update_aggregated_merchant", merchant_id |-> merchant_id,
                    request |-> request, resp |-> resp]
        /\ ret' = update_aggregated_merchant(merchant_id, request, resp)
        /\ http' = HttpRequest("PUT", update_sends_request(merchant_id, request))
    /\ UNCHANGED <<resolver_vars, race_vars>>

DeleteAggregatedMerchant ==
    /\ call.fn = "none"
    /\ \E merchant_id \in ServiceIdInputs, resp \in GatewayAnswers :
        /\ call' = [fn |-> "delete_aggregated_merchant", merchant_id |-> merchant_id,
                    resp |-> resp]
        /\ ret' = delete_aggregated_merchant(merchant_id, resp)
        /\ http' = HttpRequest("DELETE", delete_sends_request(merchant_id))
    /\ UNCHANGED <<resolver_vars, race_vars>>

MerchantExists ==
    /\ call.fn = "none"
    /\ \E merchant_id \in ServiceIdInputs, resp \in GatewayAnswers :
        /\ call' = [fn |-> "merchant_exists", merchant_id |-> merchant_id, resp |-> resp]
        /\ ret' = merchant_exists(merchant_id, resp)
        /\ http' = HttpRequest("GET", get_sends_request(merchant_id))
    /\ UNCHANGED <<resolver_vars, race_vars>>

\* the id lists a batch retrieval is given: ids may repeat, and may fail the
\* format check
BatchIdInputs == {<<"a", "m", "-", "1">>, <<"a", "m", "-", "2">>, <<"m", "-", "3">>}

BatchInputs == UNION {[1..n -> BatchIdInputs] : n \in 0..MaxBatch}

\* get_multiple_aggregated_merchants is called: results is the empty Vec
GetMultipleInvoke ==
    /\ call.fn = "none"
    /\ \E merchant_ids \in BatchInputs :
        call' = [fn |-> "get_multiple_aggregated_merchants",
                 merchant_ids |-> merchant_ids, results |-> <<>>, lookups |-> <<>>]
    /\ UNCHANGED <<ret, http, resolver_vars, race_vars>>

\* an iteration that leaves the loop with the error of its lookup
GetMultipleLookup_ErrorAborts ==
    /\ call.fn = "get_multiple_aggregated_merchants"
    /\ ret = Pending
    /\ Len(call.results) < Len(call.merchant_ids)
    /\ LET merchant_id == call.merchant_ids[Len(call.results) + 1]
       IN  \E kind \in HttpKinds :
              LET resp == [kind |-> kind, merchant |-> [id |-> merchant_id]]
                  got  == get_aggregated_merchant(merchant_id, resp)
              IN  /\ call' = [call EXCEPT
                        !.results = Append(@, <<merchant_id, got>>),
                        !.lookups = Append(@, [merchant_id |-> merchant_id,
                                               sent |-> get_sends_request(merchant_id),
                                               resp |-> resp])]
                  /\ http' = http \o HttpRequest("GET", get_sends_request(merchant_id))
                  /\ ret' = IF is_err(got) THEN got ELSE ret
    /\ UNCHANGED <<resolver_vars, race_vars>>

\* one iteration of the loop of get_multiple_aggregated_merchants: the lookup
\* of the next id and the push of its result
GetMultipleLookup ==
    /\ call.fn = "get_multiple_aggregated_merchants"
    /\ ret = Pending
    /\ Len(call.results) < Len(call.merchant_ids)
    /\ LET merchant_id == call.merchant_ids[Len(call.results) + 1]
       IN  \E kind \in HttpKinds :
              LET resp == [kind |-> kind, merchant |-> [id |-> merchant_id]]
                  got  == get_aggregated_merchant(merchant_id, resp)
              IN  /\ call' = [call EXCEPT
                        !.results = Append(@, <<merchant_id, got>>),
                        !.lookups = Append(@, [merchant_id |-> merchant_id,
                                               sent |-> get_sends_request(merchant_id),
                                               resp |-> resp])]
                  /\ http' = http \o HttpRequest("GET", get_sends_request(merchant_id))
    /\ UNCHANGED <<ret, resolver_vars, race_vars>>

\* the loop is over: Ok(results)
GetMultipleReturn ==
    /\ call.fn = "get_multiple_aggregated_merchants"
    /\ ret = Pending
    /\ Len(call.results) = Len(call.merchant_ids)
    /\ ret' = Ok(call.results)
    /\ UNCHANGED <<call, http, resolver_vars, race_vars>>

ServiceNext ==
    \/ CreateAggregatedMerchant
    \/ GetAggregatedMerchant
    \/ UpdateAggregatedMerchant
    \/ DeleteAggregatedMerchant
    \/ MerchantExists
    \/ GetMultipleInvoke
    \/ GetMultipleLookup
    \/ GetMultipleReturn

ServiceSpec == Init /\ [][ServiceNext]_vars

\* ------------------------------------------------------------------------
\* Pure functions called on their own
\* ------------------------------------------------------------------------
\* PaymentsAuthorizeRouterData, the fields the request builder reads
AuthorizeInputs ==
    [merchant_id : {<<"m", "1">>},
     connector_auth_type : ConnectorAuthTypeInputs,
     connector_meta_data :
        {None, Some([parses |-> FALSE]), Some([parses |-> TRUE, metadata |-> NoMetadata]),
         Some([parses |-> TRUE,
               metadata |-> [NoMetadata EXCEPT !.aggregated_merchant_id =
                                                   Some(<<"a", "m", "-", "1">>)]])},
     minor_amount : {0, 1000},
     currency : {"XOF"},
     router_return_url : {None, Some(HttpsPrefix \o <<"r">>)},
     connector_request_reference_id : {<<"r", "e", "f">>},
     email : {None},
     billing_address : {None}]

\* the authorize requests the builder is called with on its own
BuilderInputs ==
    [merchant_id : {<<"m", "1">>},
     connector_auth_type : {[form |-> "HeaderKey"]},
     connector_meta_data :
        {None,
         Some([parses |-> TRUE,
               metadata |-> [NoMetadata EXCEPT !.aggregated_merchant_id =
                                                   Some(<<"a", "m", "-", "1">>)]])},
     minor_amount : {0, 7, 10, 1000, 1005},
     currency : {"XOF", "EUR"},
     router_return_url : {None, Some(HttpsPrefix \o <<"r">>)},
     connector_request_reference_id : {<<"r", "e", "f">>, <<"p", "a", "y", "_", "2">>},
     email : {None, Some(<<"a", "@", "b", ".", "c", "o", "m">>)},
     billing_address : {None, Some([full_name |-> None]),
                        Some([full_name |-> Some(<<"A", "w", "a">>)])}]

\* HTTP status codes of an error answer
StatusInputs == {400, 401, 403, 404, 429, 500}

\* WaveErrorDetail lists
DetailsInputs ==
    {None, Some(<<>>), Some(<<[loc |-> None, msg |-> "first"]>>),
     Some(<<[loc |-> None, msg |-> "first"], [loc |-> None, msg |-> "second"]>>)}

\* bodies that deserialize into a WaveErrorResponse
ParsedBodyInputs ==
    {[text |-> "json", parsed |-> Some(e)] :
        e \in [code : {None, Some(""), Some("AGGREGATED_MERCHANT_NOT_FOUND"),
                       Some("INVALID_BUSINESS_TYPE"), Some("INSUFFICIENT_FUNDS")},
               message : {"", "x"},
               details : DetailsInputs]}

\* bodies that do not: not JSON, empty, or JSON without the message field
RawBodyInputs ==
    {[text |-> t, parsed |-> None] :
        t \in {"Internal Server Error", "", "{\"code\":\"AGGREGATED_MERCHANT_NOT_FOUND\"}"}}

ErrorBodyInputs == ParsedBodyInputs \cup RawBodyInputs

ParseWaveApiError ==
    /\ call.fn = "none"
    /\ \E status \in StatusInputs, body \in ErrorBodyInputs :
        /\ call' = [fn |-> "parse_wave_api_error", status |-> status, body |-> body]
        /\ ret' = parse_wave_api_error(status, body)
    /\ UNCHANGED <<http, resolver_vars, race_vars>>

BuildErrorResponse ==
    /\ call.fn = "none"
    /\ \E status \in StatusInputs, body \in ErrorBodyInputs :
        LET res == [status_code |-> status, response |-> body]
        IN  /\ call' = [fn |-> "build_error_response", res |-> res]
            /\ ret' = build_error_response(res)
    /\ UNCHANGED <<http, resolver_vars, race_vars>>

\* WaveAggregatedMerchantConfig values a blob can hold
BlobConfigInputs ==
    [enabled : BOOLEAN,
     auto_create_on_profile_creation : BOOLEAN,
     default_business_type : {"ecommerce", "pos", "marketplace"},
     cache_ttl_seconds : {0, DefaultCacheTtl, MaxCacheTtl + 1}]

\* key1 texts that serde_json does not read as a WaveAggregatedMerchantConfig:
\* empty, not JSON, JSON with fields missing
MalformedBlobInputs == {"", "not json", "{\"enabled\":true}"}

\* ConnectorAuthType: every form, and for key + blob every kind of blob
AuthTypeInputs ==
    {[form |-> f] : f \in {"HeaderKey", "SignatureKey", "MultiAuthKey", "NoKey",
                            "TemporaryAuth"}}
        \cup {[form |-> "BodyKey", key1 |-> [parses |-> FALSE, text |-> t]] :
                t \in MalformedBlobInputs}
        \cup {[form |-> "BodyKey", key1 |-> [parses |-> TRUE, config |-> c]] :
                c \in BlobConfigInputs}

WaveAuthTypeTryFrom ==
    /\ call.fn = "none"
    /\ \E auth_type \in AuthTypeInputs :
        /\ call' = [fn |-> "WaveAuthType::try_from", auth_type |-> auth_type]
        /\ ret' = WaveAuthType_try_from(auth_type)
    /\ UNCHANGED <<http, resolver_vars, race_vars>>

\* further (field, value) deviations: the limits themselves, and text of
\* two-byte characters
LimitDeviations ==
    {<<"aggregated_merchant_id", Some(<<>>)>>,
     <<"aggregated_merchant_id", Some(AmPrefix \o <<"é">>)>>,
     <<"business_description", Some(Repeat("é", (MaxDescriptionLen \div 2) + 1))>>,
     <<"business_description", Some(Repeat("é", MaxDescriptionLen \div 2))>>,
     <<"manager_name", Some(Repeat("x", MaxManagerNameLen))>>,
     <<"manager_name", Some(Repeat("é", MaxManagerNameLen))>>,
     <<"website_url", Some(HttpPrefix \o Repeat("x", MaxWebsiteUrlLen - Len(HttpPrefix)))>>,
     <<"business_registration_identifier", Some(Repeat("x", MaxRegistrationIdLen))>>,
     <<"business_sector", Some(Repeat("x", MaxSectorLen))>>,
     <<"cache_ttl_seconds", Some(MaxCacheTtl)>>,
     <<"cache_ttl_seconds", Some(0)>>}

\* WaveConnectorMetadata values handed to the validation
ValidationMetadataInputs ==
    MetadataInputs \cup
    {[[NoMetadata EXCEPT !.auto_create_aggregated_merchant = a] EXCEPT ![d[1]] = d[2]] :
        a \in {None, Some(TRUE), Some(FALSE)}, d \in LimitDeviations}

ValidateWaveConnectorMetadata ==
    /\ call.fn = "none"
    /\ \E m \in ValidationMetadataInputs :
        /\ call' = [fn |-> "validate_wave_connector_metadata", metadata |-> m]
        /\ ret' = validate_wave_connector_metadata(m)
    /\ UNCHANGED <<http, resolver_vars, race_vars>>

GetRequestBody ==
    /\ call.fn = "none"
    /\ \E req \in AuthorizeInputs :
        /\ call' = [fn |-> "get_request_body", req |-> req]
        /\ ret' = get_request_body(req)
    /\ UNCHANGED <<http, resolver_vars, race_vars>>

WaveCheckoutSessionRequestTryFrom ==
    /\ call.fn = "none"
    /\ \E req \in BuilderInputs :
        LET item == WaveRouterData_try_from(req.minor_amount, req).val
        IN  /\ call' = [fn |-> "WaveCheckoutSessionRequest::try_from", item |-> item]
            /\ ret' = WaveCheckoutSessionRequest_try_from(item)
    /\ UNCHANGED <<http, resolver_vars, race_vars>>

\* metadata that passes validation, with each optional field set or not
BuildMetadataInputs ==
    {[NoMetadata EXCEPT !.auto_create_aggregated_merchant = a,
                        !.business_type = bt,
                        !.business_description = d,
                        !.manager_name = mn,
                        !.business_registration_identifier = ri,
                        !.business_sector = bs,
                        !.website_url = w] :
        a  \in {None, Some(TRUE)},
        bt \in {None, Some("pos")},
        d  \in {None, Some(<<"S", "h", "o", "p">>)},
        mn \in {None, Some(<<"A", "w", "a">>)},
        ri \in {None, Some(<<"R", "1">>)},
        bs \in {None, Some(<<"r", "e", "t", "a", "i", "l">>)},
        w  \in {None, Some(HttpsPrefix \o <<"x">>)}}

\* the arguments of an auto-creation: the auth config, the merchant id of the
\* router data, the metadata
AutoCreateInputs ==
    [auth : [aggregated_merchants_enabled : {TRUE},
             auto_create_aggregated_merchant : {TRUE},
             default_business_type : {"ecommerce", "marketplace"},
             cache_ttl_seconds : {DefaultCacheTtl}],
     router_data : [merchant_id : {<<"m", "1">>, <<"a", "c", "m", "e">>}],
     metadata : {None} \cup {Some(m) : m \in BuildMetadataInputs \cup FieldMetadataInputs}]

AutoCreateRequest ==
    /\ call.fn = "none"
    /\ \E in \in AutoCreateInputs :
        /\ call' = [fn |-> "auto_create_aggregated_merchant", auth |-> in.auth,
                    router_data |-> in.router_data, metadata |-> in.metadata]
        /\ ret' = auto_create_request(in.auth, in.router_data, in.metadata)
    /\ UNCHANGED <<http, resolver_vars, race_vars>>

FunctionNext ==
    \/ GetRequestBody
    \/ AutoCreateRequest
    \/ WaveCheckoutSessionRequestTryFrom
    \/ ParseWaveApiError
    \/ BuildErrorResponse
    \/ WaveAuthTypeTryFrom
    \/ ValidateWaveConnectorMetadata

FunctionSpec == Init /\ [][FunctionNext]_vars

\* ------------------------------------------------------------------------
\* Responses of the gateway handled on their own
\* ------------------------------------------------------------------------
\* the router data a handle_response is given, before the response is in it
ResponseDataInputs ==
    [status : {"Started", "AuthenticationPending"},
     response : {Err([code |-> NO_ERROR_CODE, message |-> NO_ERROR_MESSAGE])},
     merchant_id : {<<"m", "1">>},
     connector_auth_type :
        {[form |-> "HeaderKey"],
         [form |-> "BodyKey", key1 |-> [parses |-> TRUE,
                                        config |-> [WaveAggregatedMerchantConfigDefault
                                                       EXCEPT !.enabled = TRUE]]]},
     connector_meta_data :
        {None,
         Some([parses |-> TRUE,
               metadata |-> [NoMetadata EXCEPT !.aggregated_merchant_id =
                                                   Some(<<"a", "m", "-", "1">>)]])},
     connector_request_reference_id : {<<"r", "e", "f">>},
     minor_amount : {1000}]

\* launch URLs that Url::parse accepts, and strings it rejects
ValidLaunchUrls == {HttpsPrefix \o <<"w", "/", "c">>, HttpPrefix \o <<"w">>}

InvalidLaunchUrls == {<<>>, <<"w", "/", "c">>, HttpsPrefix}

\* the status strings a body carries: the lowercase names, and others
PaymentStatusTexts ==
    {"created", "pending", "completed", "failed", "cancelled", "Completed", "expired"}

RefundStatusTexts ==
    {"processing", "completed", "failed", "cancelled", "pending", "PROCESSING"}

\* an object without one of its keys
Without(object, key) == [k \in (DOMAIN object) \ {key} |-> object[k]]

\* JSON objects with every key of a checkout session or payment status
PaymentObjects ==
    [id : {<<"c", "s", "-", "1">>},
     status : PaymentStatusTexts,
     amount : {<<"1", "0", "0", "0">>},
     currency : {<<"X", "O", "F">>},
     launch_url : {None} \cup {Some(u) : u \in ValidLaunchUrls \cup InvalidLaunchUrls},
     reference : {None, Some(<<"r", "e", "f">>)}]

\* JSON objects with every key of a refund
RefundObjects ==
    [id : {<<"r", "f", "-", "1">>},
     status : RefundStatusTexts,
     amount : {<<"1", "0", "0", "0">>},
     currency : {<<"X", "O", "F">>},
     transaction_id : {None, Some(<<"c", "s", "-", "1">>)}]

\* the bodies of a gateway answer: not JSON, an object, an object short of a key
BodiesOf(objects) ==
    {[json |-> FALSE]}
        \cup {[json |-> TRUE, object |-> o] : o \in objects}
        \cup {[json |-> TRUE, object |-> Without(o, k)] :
                 o \in {x \in objects : x.status = "completed"}, k \in DOMAIN CHOOSE x \in objects : TRUE}

\* the Response of a 2xx answer
ResponsesOf(objects) == [status_code : {200}, response : BodiesOf(objects)]

AuthorizeHandleResponse ==
    /\ call.fn = "none"
    /\ \E data \in ResponseDataInputs, res \in ResponsesOf(PaymentObjects) :
        /\ call' = [fn |-> "Authorize::handle_response", data |-> data, res |-> res]
        /\ ret' = Authorize_handle_response(data, res)
    /\ UNCHANGED <<http, resolver_vars, race_vars>>

PSyncHandleResponse ==
    /\ call.fn = "none"
    /\ \E data \in ResponseDataInputs, res \in ResponsesOf(PaymentObjects) :
        /\ call' = [fn |-> "PSync::handle_response", data |-> data, res |-> res]
        /\ ret' = PSync_handle_response(data, res)
    /\ UNCHANGED <<http, resolver_vars, race_vars>>

VoidHandleResponse ==
    /\ call.fn = "none"
    /\ \E data \in ResponseDataInputs, res \in ResponsesOf(PaymentObjects) :
        /\ call' = [fn |-> "Void::handle_response", data |-> data, res |-> res]
        /\ ret' = Void_handle_response(data, res)
    /\ UNCHANGED <<http, resolver_vars, race_vars>>

ExecuteHandleResponse ==
    /\ call.fn = "none"
    /\ \E data \in ResponseDataInputs, res \in ResponsesOf(RefundObjects) :
        /\ call' = [fn |-> "Execute::handle_response", data |-> data, res |-> res]
        /\ ret' = Execute_handle_response(data, res)
    /\ UNCHANGED <<http, resolver_vars, race_vars>>

RSyncHandleResponse ==
    /\ call.fn = "none"
    /\ \E data \in ResponseDataInputs, res \in ResponsesOf(RefundObjects) :
        /\ call' = [fn |-> "RSync::handle_response", data |-> data, res |-> res]
        /\ ret' = RSync_handle_response(data, res)
    /\ UNCHANGED <<http, resolver_vars, race_vars>>

ResponseNext ==
    \/ AuthorizeHandleResponse
    \/ PSyncHandleResponse
    \/ VoidHandleResponse
    \/ ExecuteHandleResponse
    \/ RSyncHandleResponse

ResponseSpec == Init /\ [][ResponseNext]_vars

\* ------------------------------------------------------------------------
\* Validation of a merchant account's configuration
\* ------------------------------------------------------------------------
\* metadata: &Option<WaveConnectorMetadata>
ConfigMetadataInputs == {None} \cup {Some(m) : m \in ValidationMetadataInputs}

\* ConnectorError::ProcessingStepFailed(Some(message))
ProcessingStepFailed(message) == [kind |-> "ProcessingStepFailed", message |-> message]

\* Wave::validate_aggregated_merchant_config up to its call of
\* validate_aggregated_merchant
ValidateAggregatedMerchantConfig ==
    /\ call.fn = "none"
    /\ \E a \in AuthInputs, m \in ConfigMetadataInputs :
        /\ call' = [fn |-> "validate_aggregated_merchant_config", auth |-> a,
                    metadata |-> m, retry_count |-> 0]
        /\ ret' = IF ~a.aggregated_merchants_enabled THEN Ok(TRUE)
                  ELSE IF m = None THEN Ok(TRUE)
                  ELSE IF is_err(validate_wave_connector_metadata(unwrap(m)))
                  THEN Err(ProcessingStepFailed(
                               validate_wave_connector_metadata(unwrap(m)).err))
                  ELSE IF unwrap(m).aggregated_merchant_id = None THEN Ok(TRUE)
                  ELSE Pending
    /\ UNCHANGED <<http, resolver_vars, race_vars>>

\* one attempt of validate_aggregated_merchant on behalf of the configuration
\* check, and the check's return once the loop has ended
ConfigValidateAttempt ==
    /\ call.fn = "validate_aggregated_merchant_config"
    /\ ret = Pending
    /\ call.retry_count < max_retries
    /\ \E kind \in HttpKinds :
        LET merchant_id == unwrap(unwrap(call.metadata).aggregated_merchant_id)
            resp == [kind |-> kind, merchant |-> [id |-> merchant_id]]
            got  == get_aggregated_merchant(merchant_id, resp)
        IN  /\ http' = http \o HttpRequest("GET", get_sends_request(merchant_id))
            /\ IF is_ok(got)
               THEN /\ ret' = Ok(TRUE)
                    /\ call' = call
               ELSE /\ call' = [call EXCEPT !.retry_count = @ + 1]
                    /\ ret' = IF call.retry_count + 1 >= max_retries
                              THEN Err(ProcessingStepFailed("not found or not accessible"))
                              ELSE Pending
    /\ UNCHANGED <<resolver_vars, race_vars>>

ConfigNext ==
    \/ ValidateAggregatedMerchantConfig
    \/ ConfigValidateAttempt

ConfigSpec == Init /\ [][ConfigNext]_vars

\* ------------------------------------------------------------------------
\* One caller, one operation at a time: a resolution, a configuration check
\* or the handling of a gateway response
\* ------------------------------------------------------------------------
FrameNext ==
    \/ call.fn = "none" /\ Next
    \/ pc = "idle" /\ ConfigNext
    \/ pc = "idle" /\ ResponseNext

FrameSpec == Init /\ [][FrameNext]_vars

\* ------------------------------------------------------------------------
\* Resolutions running concurrently for one profile
\* ------------------------------------------------------------------------
\* what every action of a concurrent resolution leaves alone
outside_race ==
    <<entry, fallback_strategies, pc, retry_count, strategy_index, ac_metadata,
      result, calls, response, call_vars>>

RaceMetadataInputs ==
    {None,
     Some([parses |-> TRUE,
           metadata |-> [NoMetadata EXCEPT !.auto_create_aggregated_merchant = Some(TRUE),
                                           !.business_type = Some("pos")]]),
     Some([parses |-> TRUE,
           metadata |-> [NoMetadata EXCEPT !.auto_create_aggregated_merchant = Some(TRUE)]]),
     Some([parses |-> TRUE,
           metadata |-> [NoMetadata EXCEPT !.aggregated_merchant_id =
                                               Some(<<"a", "m", "-", "1">>)]])}

\* the id the gateway gives to the n-th merchant it creates
GatewayId(n) == AmPrefix \o <<<<"1", "2", "3", "4", "5", "6", "7", "8", "9">>[n]>>

\* resolution p moves to position pc_ with the given fields changed
Moved(p, changes) ==
    resolutions' = [resolutions EXCEPT ![p] =
        [f \in DOMAIN NotStarted |->
            IF f \in DOMAIN changes THEN changes[f] ELSE resolutions[p][f]]]

Returned(p, r) == Moved(p, [pc |-> "done", result |-> r])

\* the callers hand the same auth config and request to every resolution
RaceInvoke ==
    /\ \A p \in Resolutions : resolutions[p].pc = "idle"
    /\ auth' \in AuthInputs
    /\ \E md \in RaceMetadataInputs :
          router_data' = [merchant_id |-> <<"m", "1">>,
                          connector_auth_type |-> [form |-> "HeaderKey"],
                          connector_meta_data |-> md]
    /\ resolutions' = [p \in Resolutions |-> [NotStarted EXCEPT !.pc = "resolve"]]
    /\ UNCHANGED <<gateway, outside_race>>

\* resolve_aggregated_merchant up to the first remote call
RaceResolve(p) ==
    /\ resolutions[p].pc = "resolve"
    /\ IF ~auth.aggregated_merchants_enabled
       THEN Returned(p, Ok(None))
       ELSE Moved(p, [pc |-> IF has_merchant_id(metadata) THEN "validate" ELSE "decide"])
    /\ UNCHANGED <<auth, router_data, gateway, outside_race>>

\* one iteration of validate_aggregated_merchant's retry loop
RaceValidateAttempt(p) ==
    /\ resolutions[p].pc = "validate"
    /\ resolutions[p].retry_count < max_retries
    /\ \E resp \in GatewayAnswers :
        LET got == get_aggregated_merchant(configured_merchant_id, resp)
            n   == resolutions[p].retry_count + 1
        IN  IF is_ok(got)
            THEN Returned(p, Ok(Some(configured_merchant_id)))
            ELSE Moved(p, [retry_count |-> n,
                           pc |-> IF n >= max_retries THEN "decide" ELSE "validate"])
    /\ UNCHANGED <<auth, router_data, gateway, outside_race>>

\* step 3 of resolve_aggregated_merchant
RaceAutoCreateDecision(p) ==
    /\ resolutions[p].pc = "decide"
    /\ IF auto_create(metadata, auth)
       THEN Moved(p, [pc |-> "auto_create"])
       ELSE Returned(p, Ok(None))
    /\ UNCHANGED <<auth, router_data, gateway, outside_race>>

\* auto_create_aggregated_merchant holding back when another resolution has
\* already sent a create request for the profile
RaceCreateSend_SingleFlight(p) ==
    /\ resolutions[p].pc = "auto_create"
    /\ LET profile_name == ProfilePrefix \o router_data.merchant_id
           built == build_aggregated_merchant_request_from_profile(profile_name, metadata)
       IN  IF is_err(built)
           THEN Returned(p, Err(ConnectorErrorFrom(built.err)))
           ELSE IF ~create_sends_request(built.val)
                   \/ \E q \in Resolutions : resolutions[q].posts > 0
           THEN Returned(p, Ok(None))
           ELSE Moved(p, [pc |-> "awaiting_create", posts |-> resolutions[p].posts + 1])
    /\ UNCHANGED <<auth, router_data, gateway, outside_race>>

\* auto_create_aggregated_merchant up to the await on the create request
RaceCreateSend(p) ==
    /\ resolutions[p].pc = "auto_create"
    /\ LET profile_name == ProfilePrefix \o router_data.merchant_id
           built == build_aggregated_merchant_request_from_profile(profile_name, metadata)
       IN  IF is_err(built)
           THEN Returned(p, Err(ConnectorErrorFrom(built.err)))
           ELSE IF ~create_sends_request(built.val)
           THEN Returned(p, Ok(None))
           ELSE Moved(p, [pc |-> "awaiting_create", posts |-> resolutions[p].posts + 1])
    /\ UNCHANGED <<auth, router_data, gateway, outside_race>>

\* the gateway answers the create request of resolution p, and
\* auto_create_aggregated_merchant goes on from the await; a 2xx answer means
\* the gateway has created the merchant
RaceCreateReceive(p) ==
    /\ resolutions[p].pc = "awaiting_create"
    /\ \E kind \in HttpKinds :
        LET profile_name == ProfilePrefix \o router_data.merchant_id
            new_id  == GatewayId(Len(gateway) + 1)
            resp    == [kind |-> kind, merchant |-> [id |-> new_id]]
            created == HandleServiceResponse(resp)
        IN  /\ gateway' = IF kind \in {"success", "success_undecodable"}
                          THEN Append(gateway, [id |-> new_id, name |-> profile_name, by |-> p])
                          ELSE gateway
            /\ IF is_ok(created)
               THEN Returned(p, Ok(Some(created.val.id)))
               ELSE Returned(p, Ok(None))
    /\ UNCHANGED <<auth, router_data, outside_race>>

RaceNext ==
    \/ RaceInvoke
    \/ \E p \in Resolutions : RaceResolve(p)
    \/ \E p \in Resolutions : RaceValidateAttempt(p)
    \/ \E p \in Resolutions : RaceAutoCreateDecision(p)
    \/ \E p \in Resolutions : RaceCreateSend(p)
    \/ \E p \in Resolutions : RaceCreateReceive(p)

RaceSpec == Init /\ [][RaceNext]_vars

\* ------------------------------------------------------------------------
\* Observations on a call
\* ------------------------------------------------------------------------
TypeOK ==
    /\ pc \in {"idle", "for_payment", "resolve", "validate", "decide",
               "auto_create", "fallback", "done"}
    /\ retry_count \in 0..max_retries
    /\ strategy_index \in 0..(Len(fallback_strategies) + 1)
    /\ result.tag \in {"Pending", "Ok", "Err"}
    /\ (pc = "done") = (result # Pending)

\* the call went straight to the resolution, not through resolve_with_fallback
Direct ==
    entry \in {"resolve_aggregated_merchant", "resolve_aggregated_merchant_for_payment"}

\* the auth config the call works with
CallAuth ==
    IF entry = "resolve_aggregated_merchant_for_payment"
    THEN WaveAuthType_try_from(router_data.connector_auth_type)
    ELSE Ok(auth)

FlagDisabled ==
    entry # "none" /\ is_ok(CallAuth) /\ ~CallAuth.val.aggregated_merchants_enabled

GetCalls == {i \in DOMAIN calls : calls[i].op = "get"}

CreateCalls == {i \in DOMAIN calls : calls[i].op = "create"}

\* the create calls made at position j of the strategy list (0: by the
\* primary resolution)
CreateCallsAt(j) == {i \in CreateCalls : calls[i].at = j}

GetSucceeded == response.op = "get" /\ response.kind = "success"

CreateFailed ==
    /\ response.op = "create"
    /\ response.kind \in {"transport_error", "non2xx", "success_undecodable",
                          "non2xx_unreadable"}

\* the primary resolution got as far as the auto-create decision and took it
StepThreeTaken ==
    /\ entry # "none"
    /\ is_ok(CallAuth) /\ CallAuth.val.aggregated_merchants_enabled
    /\ pc \in {"auto_create", "fallback", "done"}
    /\ ~GetSucceeded

\* the request auto-creation would build from the call's metadata
PrimaryBuild ==
    build_aggregated_merchant_request_from_profile(
        ProfilePrefix \o router_data.merchant_id, metadata)

\* the flag as the specification words it
EffectiveAutoCreate ==
    IF metadata # None /\ unwrap(metadata).auto_create_aggregated_merchant # None
    THEN unwrap(unwrap(metadata).auto_create_aggregated_merchant)
    ELSE auth.auto_create_aggregated_merchant

\* ------------------------------------------------------------------------
\* C1: with the feature flag disabled, resolve_aggregated_merchant and
\* resolve_aggregated_merchant_for_payment return Ok(None) and make no
\* service call, whatever the connector metadata holds.
\* ------------------------------------------------------------------------
C1_DisabledNoCalls ==
    (Direct /\ FlagDisabled) =>
        /\ calls = <<>>
        /\ pc \in {"for_payment", "resolve", "done"}
        /\ (pc = "done" => result = Ok(None))

C1_Witness ==
    /\ entry = "resolve_aggregated_merchant"
    /\ FlagDisabled
    /\ has_merchant_id(metadata)
    /\ auth.auto_create_aggregated_merchant
    /\ pc = "done"
    /\ result = Ok(None)

\* ------------------------------------------------------------------------
\* C2: when the resolution attempts auto-creation and the create call fails
\* (transport error, non-2xx, undecodable 2xx body), it returns Ok(None),
\* never an error, and makes no further create attempt.
\* ------------------------------------------------------------------------
C2_CreateFailureIsNone ==
    (Direct /\ CreateFailed) =>
        /\ pc = "done"
        /\ result = Ok(None)
        /\ Cardinality(CreateCalls) = 1
        /\ calls[Len(calls)].op = "create"

C2_Witness ==
    /\ entry = "resolve_aggregated_merchant_for_payment"
    /\ CreateFailed
    /\ response.kind = "success_undecodable"
    /\ pc = "done"

\* ------------------------------------------------------------------------
\* C3: when auto-creation is attempted and the creation request or the
\* metadata fails validation, the resolution ends with Ok(None), not an
\* error, without retry and without issuing the create call.
\* ------------------------------------------------------------------------
C3_ValidationFailureIsNone ==
    (Direct /\ pc = "done" /\ StepThreeTaken /\ auto_create(metadata, auth)
        /\ is_err(PrimaryBuild)) =>
        /\ result = Ok(None)
        /\ CreateCalls = {}

\* ------------------------------------------------------------------------
\* C4: when the remote validation of the metadata's merchant id fails (every
\* attempt fails, whatever the error), the resolution does not return: it
\* goes on to the auto-create decision of step 3.
\* ------------------------------------------------------------------------
C4_ValidationFailureFallsThrough ==
    [][(pc = "validate" /\ response'.op = "get" /\ response'.kind # "success"
          /\ Cardinality(GetCalls') = 3)
        => (pc' = "decide" /\ result' = Pending)]_vars

C4_Witness ==
    /\ pc = "decide"
    /\ Cardinality(GetCalls) = 3
    /\ response.kind = "non2xx"
    /\ result = Pending

\* ------------------------------------------------------------------------
\* C5: feature enabled, metadata id m, a get for m succeeds within the 3
\* attempts: the resolution returns exactly m and issues no create call,
\* whatever the auto-create flags are.
\* ------------------------------------------------------------------------
C5_ValidatedIdIsReturned ==
    GetSucceeded =>
        /\ auth.aggregated_merchants_enabled
        /\ pc = "done"
        /\ result = Ok(Some(configured_merchant_id))
        /\ CreateCalls = {}
        /\ Cardinality(GetCalls) <= 3

C5_Witness ==
    /\ GetSucceeded
    /\ Len(calls) = 3
    /\ unwrap(metadata).auto_create_aggregated_merchant = Some(TRUE)
    /\ auth.auto_create_aggregated_merchant
    /\ pc = "done"

\* ------------------------------------------------------------------------
\* C6: the effective auto-create flag is the metadata's explicit flag when
\* the metadata is present and sets it, otherwise the auth config's default;
\* at step 3 a create call is issued only if it is true, and if it is false
\* the result is Ok(None) with no create call.
\* ------------------------------------------------------------------------
C6_EffectiveAutoCreate ==
    /\ (pc = "auto_create" /\ strategy_index = 0) => EffectiveAutoCreate
    /\ (CreateCallsAt(0) # {}) => EffectiveAutoCreate
    /\ (StepThreeTaken /\ ~EffectiveAutoCreate) =>
          /\ CreateCallsAt(0) = {}
          /\ (pc = "auto_create" => strategy_index > 0)
          /\ (Direct => (pc = "done" /\ result = Ok(None)))

C6_Witness ==
    /\ Direct
    /\ metadata # None
    /\ unwrap(metadata).auto_create_aggregated_merchant = Some(TRUE)
    /\ ~auth.auto_create_aggregated_merchant
    /\ CreateCallsAt(0) # {}
    /\ pc = "done"

\* ------------------------------------------------------------------------
\* C7: validate_aggregated_merchant makes at most 3 sequential get attempts;
\* it returns true at the first attempt that succeeds and makes no further
\* attempt; any error counts as a failed attempt; after 3 failed attempts it
\* returns false; it never returns an error and never makes a 4th attempt.
\* ------------------------------------------------------------------------
C7_AtMostThreeAttempts ==
    LET gets == Cardinality(GetCalls)
    IN  /\ gets <= 3
        /\ (pc = "validate") => (gets = retry_count /\ gets < 3 /\ ~GetSucceeded)
        /\ GetSucceeded => (pc = "done" /\ yields_id(result) /\ calls[Len(calls)].op = "get")
        /\ (gets > 0 /\ ~GetSucceeded /\ pc # "validate") => (gets = 3 /\ retry_count = 3)
        /\ (pc = "decide") => result = Pending

C7_Witness ==
    /\ pc = "decide"
    /\ Cardinality(GetCalls) = 3
    /\ response = [op |-> "get", kind |-> "transport_error", id |-> None]

\* ------------------------------------------------------------------------
\* C8: resolve_with_fallback returns the primary resolution's id when it
\* yields one, without consulting the strategies; otherwise it goes through
\* the strategies in list order - UseDefault does nothing, CreateTemporary
\* invokes auto-creation with no metadata - and returns the id of the first
\* strategy that yields one, or Ok(None) when the list is exhausted.
\* ------------------------------------------------------------------------
C8_FallbackInOrder ==
    LET k == strategy_index
        n == Len(fallback_strategies)
    IN  (entry = "resolve_with_fallback") =>
          /\ (k = 0 /\ pc = "done") => (yields_id(result) /\ result = Ok(response.id))
          /\ (response.id # None /\ calls[Len(calls)].at = 0) =>
                (k = 0 /\ pc = "done" /\ result = Ok(response.id))
          /\ \A i \in DOMAIN calls : calls[i].at <= k
          /\ \A i, j \in DOMAIN calls : i < j => calls[i].at <= calls[j].at
          /\ (k >= 1) =>
                /\ \A i \in GetCalls : calls[i].at = 0
                /\ \A j \in 1..n :
                      Cardinality(CreateCallsAt(j)) =
                         IF /\ fallback_strategies[j] = "CreateTemporary"
                            /\ (j < k \/ (j = k /\ pc = "done"))
                         THEN 1 ELSE 0
                /\ (pc = "auto_create") =>
                      (k <= n /\ fallback_strategies[k] = "CreateTemporary"
                         /\ ac_metadata = None)
                /\ (pc = "done") =>
                      IF k <= n /\ fallback_strategies[k] = "CreateTemporary"
                      THEN /\ yields_id(result)
                           /\ result = Ok(response.id)
                           /\ response.op = "create"
                           /\ calls[Len(calls)].at = k
                      ELSE /\ result = Ok(None)
                           /\ (k = n + 1 \/ fallback_strategies[k] = "Skip")

C8_Witness ==
    /\ entry = "resolve_with_fallback"
    /\ fallback_strategies = <<"UseDefault", "CreateTemporary">>
    /\ strategy_index = 2
    /\ pc = "done"
    /\ yields_id(result)
    /\ metadata # None

\* ------------------------------------------------------------------------
\* C9: when the primary resolution yields no id and the iteration reaches a
\* Skip strategy, resolve_with_fallback returns Ok(None) at once: no strategy
\* after Skip is executed, and with the list [Skip] the fallback attempts no
\* create call.
\* ------------------------------------------------------------------------
C9_SkipEndsFallback ==
    LET k == strategy_index
        n == Len(fallback_strategies)
    IN  (entry = "resolve_with_fallback" /\ k >= 1) =>
          /\ \A j \in 1..n :
                (fallback_strategies[j] = "Skip") =>
                   /\ k <= j
                   /\ \A i \in DOMAIN calls : calls[i].at < j
          /\ (pc = "done" /\ k <= n /\ fallback_strategies[k] = "Skip") =>
                result = Ok(None)
          /\ (fallback_strategies = <<"Skip">>) =>
                \A i \in CreateCalls : calls[i].at = 0

C9_Witness ==
    /\ entry = "resolve_with_fallback"
    /\ fallback_strategies = <<"Skip", "CreateTemporary">>
    /\ strategy_index = 1
    /\ pc = "done"
    /\ result = Ok(None)
    /\ CreateFailed

\* ------------------------------------------------------------------------
\* C10: resolve_with_fallback called with the feature flag disabled issues
\* no remote call and returns Ok(None), for every strategy list.
\* ------------------------------------------------------------------------
C10_FallbackDisabledNoCalls ==
    (entry = "resolve_with_fallback" /\ FlagDisabled) =>
        /\ calls = <<>>
        /\ (pc = "done" => result = Ok(None))

\* ------------------------------------------------------------------------
\* C11: when resolve_aggregated_merchant is given connector metadata that
\* violates a validation rule (such as auto-create true together with an
\* explicit merchant id), no remote get or create call is issued during that
\* resolution.
\* ------------------------------------------------------------------------
C11_InvalidMetadataNoCall ==
    (Direct /\ metadata # None
        /\ is_err(validate_wave_connector_metadata(unwrap(metadata)))) =>
        \A i \in DOMAIN calls : ~calls[i].http

\* ------------------------------------------------------------------------
\* C12: create_aggregated_merchant and update_aggregated_merchant return an
\* error and issue no HTTP request whenever the request violates a rule:
\* business description empty, blank after trimming or longer than 500;
\* manager name blank or longer than 100; website URL longer than 2083 or not
\* starting with http:// or https://; registration identifier longer than
\* 50; business sector longer than 100.
\* ------------------------------------------------------------------------
\* the rules as the specification lists them, on the fields the request sets
RequestRuleViolated(request, description) ==
    LET mn == request.manager_name
        u  == request.website_url
        r  == request.business_registration_identifier
        sc == request.business_sector
    IN  \/ is_some(description)
             /\ (trim_is_empty(unwrap(description))
                    \/ Len(unwrap(description)) > MaxDescriptionLen)
        \/ is_some(mn) /\ (trim_is_empty(unwrap(mn)) \/ Len(unwrap(mn)) > MaxManagerNameLen)
        \/ is_some(u) /\ (Len(unwrap(u)) > MaxWebsiteUrlLen
                             \/ (~starts_with(unwrap(u), HttpPrefix)
                                    /\ ~starts_with(unwrap(u), HttpsPrefix)))
        \/ is_some(r) /\ Len(unwrap(r)) > MaxRegistrationIdLen
        \/ is_some(sc) /\ Len(unwrap(sc)) > MaxSectorLen

C12_RulesBeforeCreateUpdate ==
    /\ (call.fn = "create_aggregated_merchant"
          /\ RequestRuleViolated(call.request, Some(call.request.business_description))) =>
            (is_err(ret) /\ http = <<>>)
    /\ (call.fn = "update_aggregated_merchant"
          /\ RequestRuleViolated(call.request, call.request.business_description)) =>
            (is_err(ret) /\ http = <<>>)

\* ------------------------------------------------------------------------
\* C13: get_aggregated_merchant, update_aggregated_merchant and
\* delete_aggregated_merchant return an invalid-configuration error without
\* any HTTP call for every merchant id that is empty, does not start with
\* "am-" or is shorter than 4 characters ("am-" alone); ids satisfying the
\* rule ("am-1") proceed to exactly one HTTP call.
\* ------------------------------------------------------------------------
\* the format rule as the specification words it
IdFormatOk(id) ==
    ~is_empty(id) /\ starts_with(id, AmPrefix) /\ Len(id) >= MinMerchantIdLen

C13_IdFormatBeforeCall ==
    (call.fn \in {"get_aggregated_merchant", "update_aggregated_merchant",
                  "delete_aggregated_merchant"}) =>
        IF ~IdFormatOk(call.merchant_id)
        THEN ret = Err([kind |-> "InvalidConnectorConfig"]) /\ http = <<>>
        ELSE (call.fn = "update_aggregated_merchant" => call.request = NoUpdate)
                => Len(http) = 1

AutoCreates(p) ==
    /\ auth.aggregated_merchants_enabled
    /\ EffectiveAutoCreate
    /\ is_ok(PrimaryBuild)
    /\ \/ ~has_merchant_id(metadata)
       \/ resolutions[p].retry_count = 3

FlagEnabledIn(auth_type) ==
    /\ auth_type.form = "BodyKey"
    /\ auth_type.key1.parses
    /\ auth_type.key1.config.enabled

C16_IdOnlyWhenEnabled ==
    (call.fn = "get_request_body" /\ is_ok(ret)
        /\ ~FlagEnabledIn(call.req.connector_auth_type)) =>
        ret.val.aggregated_merchant_id = None

\* ------------------------------------------------------------------------
\* C17: parse_wave_api_error is total and never requires the body to parse:
\* for a parseable body it maps (404, AGGREGATED_MERCHANT_NOT_FOUND) to
\* MerchantNotFound, (400, INVALID_BUSINESS_TYPE) to InvalidConfiguration,
\* status 401 or 403 with any code to AuthenticationFailed, status 429 with
\* any code to RateLimitExceeded, and every other (status, code) pair to a
\* generic ProcessingFailed carrying the status and the message; for an
\* unparseable body it yields a generic ProcessingFailed containing the raw
\* body text.
\* ------------------------------------------------------------------------
C17_ErrorClassifier ==
    (call.fn = "parse_wave_api_error") =>
        LET status == call.status
            parsed == call.body.parsed # None
            code   == IF parsed /\ call.body.parsed[1].code # None
                      THEN call.body.parsed[1].code[1] ELSE ""
            typed  == \/ status = 404 /\ code = "AGGREGATED_MERCHANT_NOT_FOUND"
                      \/ status = 400 /\ code = "INVALID_BUSINESS_TYPE"
                      \/ status \in {401, 403, 429}
        IN  /\ ret.kind \in {"ProcessingStepFailed", "FailedToObtainAuthType"}
            /\ (parsed /\ status = 404 /\ code = "AGGREGATED_MERCHANT_NOT_FOUND") =>
                  ret = [kind |-> "ProcessingStepFailed", detail |-> "MerchantNotFound"]
            /\ (parsed /\ status = 400 /\ code = "INVALID_BUSINESS_TYPE") =>
                  ret = [kind |-> "ProcessingStepFailed", detail |-> "InvalidConfiguration"]
            /\ (parsed /\ status \in {401, 403}) =>
                  ret = [kind |-> "FailedToObtainAuthType"]
            /\ (parsed /\ status = 429) =>
                  ret = [kind |-> "ProcessingStepFailed", detail |-> "RateLimitExceeded"]
            /\ (parsed /\ ~typed) =>
                  ret = [kind |-> "ProcessingStepFailed", detail |-> "Wave API error",
                         status |-> status, message |-> call.body.parsed[1].message]
            /\ ~parsed =>
                  ret = [kind |-> "ProcessingStepFailed", detail |-> "Wave API error",
                         status |-> status, body |-> call.body.text]

C17_Witness ==
    /\ call.fn = "parse_wave_api_error"
    /\ call.status = 403
    /\ call.body.parsed # None
    /\ call.body.parsed[1].code = Some("AGGREGATED_MERCHANT_NOT_FOUND")
    /\ ret = [kind |-> "FailedToObtainAuthType"]

\* ------------------------------------------------------------------------
\* C18: build_error_response never fails and always echoes the HTTP status
\* code: for a parseable error body it yields code = the body's code or
\* NO_ERROR_CODE when absent, message = the body's message, reason = the
\* first detail message if any; for an unparseable body it yields code
\* NO_ERROR_CODE, message NO_ERROR_MESSAGE and the fixed reason text.
\* ------------------------------------------------------------------------
\* the claim with the reason text left open
ErrorResponseAsClaimed(reason_text) ==
    (call.fn = "build_error_response") =>
        LET body == call.res.response
        IN  /\ is_ok(ret)
            /\ ret.val.status_code = call.res.status_code
            /\ (body.parsed # None) =>
                  LET e == body.parsed[1]
                  IN  /\ ret.val.code = IF e.code = None THEN NO_ERROR_CODE ELSE e.code[1]
                      /\ ret.val.message = e.message
                      /\ ret.val.reason =
                            IF e.details = None \/ e.details[1] = <<>>
                            THEN None
                            ELSE Some(e.details[1][1].msg)
            /\ (body.parsed = None) =>
                  /\ ret.val.code = NO_ERROR_CODE
                  /\ ret.val.message = NO_ERROR_MESSAGE
                  /\ ret.val.reason = Some(reason_text)

\* C18 as stated: build_error_response never fails, echoes the status code,
\* takes code, message and first detail from a parseable body, and for an
\* unparseable body gives NO_ERROR_CODE, NO_ERROR_MESSAGE and the reason
\* "unable to parse error response"
C18_ErrorResponseUnableToParse == ErrorResponseAsClaimed("unable to parse error response")

\* C18 as amended: the same, with the reason for an unparseable body being
\* "Failed to parse error response"
C18_ErrorResponse == ErrorResponseAsClaimed("Failed to parse error response")

C18_Witness ==
    /\ call.fn = "build_error_response"
    /\ call.res.response.parsed = None
    /\ call.res.status_code = 500
    /\ ret.val.reason = Some("Failed to parse error response")
    /\ ret.val.status_code = 500

\* ------------------------------------------------------------------------
\* C19: building the auth config never fails for the key-only form or the
\* key+blob form: key-only yields aggregated merchants disabled, auto-create
\* false, business type Ecommerce and cache TTL 3600; key+blob with a
\* well-formed blob yields exactly the blob's four values; key+blob with a
\* malformed or absent blob silently yields the same defaults as key-only;
\* every other auth form fails with FailedToObtainAuthType.
\* ------------------------------------------------------------------------
C19_AuthConfig ==
    (call.fn = "WaveAuthType::try_from") =>
        LET a        == call.auth_type
            defaults == [aggregated_merchants_enabled |-> FALSE,
                         auto_create_aggregated_merchant |-> FALSE,
                         default_business_type |-> "ecommerce",
                         cache_ttl_seconds |-> 3600]
        IN  /\ (a.form = "HeaderKey") => ret = Ok(defaults)
            /\ (a.form = "BodyKey" /\ a.key1.parses) =>
                  ret = Ok([aggregated_merchants_enabled |-> a.key1.config.enabled,
                            auto_create_aggregated_merchant |->
                                a.key1.config.auto_create_on_profile_creation,
                            default_business_type |-> a.key1.config.default_business_type,
                            cache_ttl_seconds |-> a.key1.config.cache_ttl_seconds])
            /\ (a.form = "BodyKey" /\ ~a.key1.parses) => ret = Ok(defaults)
            /\ (a.form \notin {"HeaderKey", "BodyKey"}) =>
                  ret = Err([kind |-> "FailedToObtainAuthType"])

C19_Witness ==
    /\ call.fn = "WaveAuthType::try_from"
    /\ call.auth_type.form = "BodyKey"
    /\ ~call.auth_type.key1.parses
    /\ call.auth_type.key1.text = "{\"enabled\":true}"
    /\ is_ok(ret)
    /\ ~ret.val.aggregated_merchants_enabled
    /\ ret.val.cache_ttl_seconds = 3600

\* ------------------------------------------------------------------------
\* C20: validate_wave_connector_metadata accepts a metadata value if and only
\* if none of the listed rules is violated - id (if present) non-empty,
\* starting with "am-" and of length at least 4; description (if present) at
\* most 500 characters and non-blank when trimmed; manager name (if present)
\* at most 100 and non-blank; website URL (if present) at most 2083 and
\* starting with http:// or https://; registration identifier at most 50;
\* sector at most 100; cache TTL within 60..86400; not (auto-create true and
\* id set) - and otherwise returns InvalidConfiguration.
\* ------------------------------------------------------------------------
\* the listed rules, lengths counted in characters
MetadataRuleViolated(m) ==
    \/ is_some(m.aggregated_merchant_id) /\ ~IdFormatOk(unwrap(m.aggregated_merchant_id))
    \/ RequestRuleViolated(m, m.business_description)
    \/ is_some(m.cache_ttl_seconds)
         /\ (unwrap(m.cache_ttl_seconds) < MinCacheTtl \/ unwrap(m.cache_ttl_seconds) > MaxCacheTtl)
    \/ m.auto_create_aggregated_merchant = Some(TRUE) /\ is_some(m.aggregated_merchant_id)

C20_AcceptsIffRulesHold ==
    (call.fn = "validate_wave_connector_metadata") =>
        IF MetadataRuleViolated(call.metadata)
        THEN is_err(ret) /\ ret.err.kind = "InvalidConfiguration"
        ELSE ret = Ok(TRUE)

\* ------------------------------------------------------------------------
\* C21
\* ------------------------------------------------------------------------
DigitValue(c) == CHOOSE d \in 0..9 : DecimalDigits[d + 1] = c

\* the number a string of decimal digits denotes
RECURSIVE DecimalValue(_)
DecimalValue(s) ==
    IF Len(s) = 0 THEN 0
    ELSE 10 * DecimalValue(SubSeq(s, 1, Len(s) - 1)) + DigitValue(s[Len(s)])

\* s is the decimal numeral of n: digits only, no leading zero
IsDecimalOf(s, n) ==
    /\ Len(s) > 0
    /\ \A i \in DOMAIN s : \E d \in 0..9 : DecimalDigits[d + 1] = s[i]
    /\ Len(s) > 1 => s[1] # "0"
    /\ DecimalValue(s) = n

IsoCode == [XOF |-> <<"X", "O", "F">>, EUR |-> <<"E", "U", "R">>]

\* C21: the create-session request built from an authorize request has
\* amount = the decimal numeral of the minor-unit amount, currency = the ISO
\* code, error_url = success_url = the caller's return URL and reference = the
\* caller's reference id; without a return URL the builder returns an error
\* and no payload.
C21_CreateSessionRequest ==
    call.fn = "WaveCheckoutSessionRequest::try_from" =>
        LET rd == call.item.router_data
        IN  IF rd.router_return_url = None
            THEN is_err(ret)
            ELSE /\ is_ok(ret)
                 /\ IsDecimalOf(ret.val.amount, rd.minor_amount)
                 /\ ret.val.currency = IsoCode[rd.currency]
                 /\ ret.val.error_url = rd.router_return_url
                 /\ ret.val.success_url = rd.router_return_url
                 /\ ret.val.reference = Some(rd.connector_request_reference_id)

\* amount 1000 in XOF with an email and the return URL https://r gives the
\* amount "1000"
C21_Witness ==
    /\ call.fn = "WaveCheckoutSessionRequest::try_from"
    /\ call.item.router_data.minor_amount = 1000
    /\ call.item.router_data.currency = "XOF"
    /\ call.item.router_data.email # None
    /\ call.item.router_data.router_return_url = Some(HttpsPrefix \o <<"r">>)
    /\ is_ok(ret)
    /\ ret.val.amount = <<"1", "0", "0", "0">>
    /\ ret.val.success_url = Some(HttpsPrefix \o <<"r">>)

\* ------------------------------------------------------------------------
\* C22
\* ------------------------------------------------------------------------
\* the status table of the payment flows, by the gateway's status text
CanonicalPaymentStatus ==
    [created |-> "Pending", pending |-> "Pending", completed |-> "Charged",
     failed |-> "Failure", cancelled |-> "Voided"]

\* the body is JSON, has the keys named, and a status of the table
WellFormed(body, keys, table) ==
    /\ body.json
    /\ keys \subseteq DOMAIN body.object
    /\ body.object.status \in DOMAIN table

\* an optional key of a JSON object
OptionalKey(object, key) == IF key \in DOMAIN object THEN object[key] ELSE None

\* the text of a parsed URL
UrlText(url) == (IF url.scheme = "https" THEN HttpsPrefix ELSE HttpPrefix) \o url.rest

HandlesLaunchUrl == call.fn \in {"Authorize::handle_response", "PSync::handle_response"}

\* C22: given a body that deserializes, the checkout-session and
\* payment-status transformers always succeed, with status = the table's
\* value for the gateway status, resource_id = the gateway id,
\* connector_response_reference_id = the echoed reference, and
\* redirection_data = the parsed launch URL (method Get) when the URL is
\* present and valid, and none when it is absent or does not parse.
C22_LaunchUrlNeverFails ==
    (/\ HandlesLaunchUrl
     /\ WellFormed(call.res.response, {"id", "status", "amount", "currency"},
                   CanonicalPaymentStatus)) =>
        LET object == call.res.response.object
            launch == OptionalKey(object, "launch_url")
        IN  /\ is_ok(ret)
            /\ ret.val.status = CanonicalPaymentStatus[object.status]
            /\ is_ok(ret.val.response)
            /\ ret.val.response.val.resource_id = object.id
            /\ ret.val.response.val.connector_response_reference_id =
                   OptionalKey(object, "reference")
            /\ IF launch # None /\ unwrap(launch) \in ValidLaunchUrls
               THEN /\ ret.val.response.val.redirection_data # None
                    /\ UrlText(unwrap(ret.val.response.val.redirection_data).endpoint)
                           = unwrap(launch)
                    /\ unwrap(ret.val.response.val.redirection_data).method = "Get"
               ELSE ret.val.response.val.redirection_data = None

\* a payment status answer whose launch URL is not a URL: the call succeeds
\* without redirection
C22_Witness ==
    /\ call.fn = "PSync::handle_response"
    /\ WellFormed(call.res.response, {"id", "status", "amount", "currency", "launch_url"},
                  CanonicalPaymentStatus)
    /\ call.res.response.object.launch_url = Some(<<"w", "/", "c">>)
    /\ call.res.response.object.status = "completed"
    /\ is_ok(ret)
    /\ ret.val.status = "Charged"
    /\ ret.val.response.val.redirection_data = None

\* ------------------------------------------------------------------------
\* C23
\* ------------------------------------------------------------------------
\* the status table of the refund flows, by the gateway's status text
CanonicalRefundStatus ==
    [processing |-> "Pending", completed |-> "Success",
     failed |-> "Failure", cancelled |-> "Failure"]

HandleResponseCalls ==
    {"Authorize::handle_response", "PSync::handle_response", "Void::handle_response",
     "Execute::handle_response", "RSync::handle_response"}

\* the keys the flow's response struct cannot do without
RequiredKeys(fn) ==
    IF fn = "Void::handle_response" THEN {"id", "status"}
    ELSE {"id", "status", "amount", "currency"}

\* the status table of the flow
StatusTable(fn) ==
    IF fn \in {"Execute::handle_response", "RSync::handle_response"}
    THEN CanonicalRefundStatus
    ELSE CanonicalPaymentStatus

\* C23: in the handle_response of authorize, sync, void, refund and
\* refund-sync, a body that is not JSON, lacks a required field or has a
\* status outside the gateway enum gives ResponseDeserializationFailed, and
\* no router data (hence no canonical status) is produced.
C23_BadBodyFailsDeserialization ==
    (/\ call.fn \in HandleResponseCalls
     /\ ~WellFormed(call.res.response, RequiredKeys(call.fn), StatusTable(call.fn))) =>
        /\ is_err(ret)
        /\ ret.err.kind = "ResponseDeserializationFailed"

\* a cancel answer with a status the enum does not have
C23_Witness ==
    /\ call.fn = "Void::handle_response"
    /\ call.res.response.json
    /\ {"id", "status"} \subseteq DOMAIN call.res.response.object
    /\ call.res.response.object.status = "expired"
    /\ ret = Err([kind |-> "ResponseDeserializationFailed"])

\* ------------------------------------------------------------------------
\* C24
\* ------------------------------------------------------------------------
\* the canonical statuses a flow produced over every status text of a table
Image(F(_), variants) == {F(variants[name]) : name \in DOMAIN variants}

\* C24: every handle_response that succeeds gives the status of the table:
\* payment created and pending give Pending, completed Charged, failed
\* Failure, cancelled Voided; refund processing gives Pending, completed
\* Success, failed and cancelled Failure. The payment mapping takes its 5
\* inputs to 4 outputs, the refund mapping its 4 inputs to 3.
C24_StatusTables ==
    /\ Cardinality(DOMAIN WavePaymentStatus) = 5
    /\ Cardinality(Image(AttemptStatus_from, WavePaymentStatus)) = 4
    /\ Cardinality(DOMAIN WaveRefundStatus) = 4
    /\ Cardinality(Image(RefundStatus_from, WaveRefundStatus)) = 3
    /\ (call.fn \in HandleResponseCalls /\ is_ok(ret)) =>
          LET text == call.res.response.object.status
          IN  IF call.fn \in {"Execute::handle_response", "RSync::handle_response"}
              THEN ret.val.response.val.refund_status = CanonicalRefundStatus[text]
              ELSE ret.val.status = CanonicalPaymentStatus[text]

\* a cancelled payment is Voided
C24_Witness ==
    /\ call.fn = "Void::handle_response"
    /\ is_ok(ret)
    /\ call.res.response.object.status = "cancelled"
    /\ ret.val.status = "Voided"

\* ------------------------------------------------------------------------
\* C25
\* ------------------------------------------------------------------------
InBatch == call.fn = "get_multiple_aggregated_merchants"

\* the i-th entry of the result is the i-th id with the outcome of its own
\* lookup
OwnOutcome(i) ==
    LET entry_i == call.results[i]
        lookup  == call.lookups[i]
    IN  /\ entry_i[1] = call.merchant_ids[i]
        /\ lookup.merchant_id = call.merchant_ids[i]
        /\ IF lookup.sent /\ lookup.resp.kind = "success"
           THEN entry_i[2] = Ok([id |-> call.merchant_ids[i]])
           ELSE is_err(entry_i[2])

\* C25: get_multiple_aggregated_merchants looks the ids up one after the
\* other in input order, once each; every entry of the result is its id with
\* that id's own success or error; the call returns Ok with one entry per
\* input id whatever the lookups returned.
C25_BatchKeepsEveryOutcome ==
    InBatch =>
        /\ Len(call.lookups) = Len(call.results)
        /\ Len(call.results) <= Len(call.merchant_ids)
        /\ Len(http) = Cardinality({i \in DOMAIN call.lookups : call.lookups[i].sent})
        /\ \A i \in DOMAIN call.results : OwnOutcome(i)
        /\ ret # Pending =>
              /\ ret = Ok(call.results)
              /\ Len(call.results) = Len(call.merchant_ids)

\* three ids, the second lookup fails, the first and the third succeed
C25_Witness ==
    /\ InBatch
    /\ Len(call.merchant_ids) = 3
    /\ is_ok(ret)
    /\ Len(ret.val) = 3
    /\ is_ok(ret.val[1][2])
    /\ is_err(ret.val[2][2])
    /\ is_ok(ret.val[3][2])

\* ------------------------------------------------------------------------
\* C26
\* ------------------------------------------------------------------------
\* the auto-creation now running cannot build its request, so it returns Err
AutoCreateErrs ==
    /\ pc = "auto_create"
    /\ is_err(build_aggregated_merchant_request_from_profile(
                  ProfilePrefix \o router_data.merchant_id, ac_metadata))

\* the primary resolution of the call ended in an error
PrimaryErred ==
    /\ StepThreeTaken
    /\ EffectiveAutoCreate
    /\ is_err(PrimaryBuild)
    /\ ~(pc = "auto_create" /\ strategy_index = 0)

\* C26: within resolve_with_fallback an auto-creation that returns Err, in
\* the primary resolution or under CreateTemporary, makes no call, leaves the
\* result open and moves the iteration to the next strategy, as "no id"
\* does; whenever resolve_with_fallback returns, it returns Ok.
C26_FallbackNeverErrs ==
    [][(entry = "resolve_with_fallback") =>
          /\ AutoCreateErrs =>
                /\ pc' = "fallback"
                /\ strategy_index' = strategy_index + 1
                /\ result' = Pending
                /\ calls' = calls
          /\ result' # Pending => is_ok(result')]_vars

\* the primary resolution erred on its metadata, and the CreateTemporary that
\* followed returned an id
C26_Witness ==
    /\ entry = "resolve_with_fallback"
    /\ PrimaryErred
    /\ fallback_strategies = <<"CreateTemporary">>
    /\ strategy_index = 1
    /\ pc = "done"
    /\ yields_id(result)

\* ------------------------------------------------------------------------
\* C27
\* ------------------------------------------------------------------------
\* no Skip stands before position j of the strategy list
BeforeFirstSkip(j) == \A i \in 1..(j - 1) : fallback_strategies[i] # "Skip"

\* the bounds on the calls of one resolution
CallBounds ==
    /\ Cardinality(GetCalls) <= 3
    /\ Cardinality(CreateCallsAt(0)) <= 1
    /\ \A g \in GetCalls, c \in CreateCalls : g < c
    /\ \A g \in GetCalls : calls[g].at = 0
    /\ \A j \in 1..Len(fallback_strategies) :
          Cardinality(CreateCallsAt(j)) <=
             IF fallback_strategies[j] = "CreateTemporary" /\ BeforeFirstSkip(j)
             THEN 1 ELSE 0
    /\ \A c \in CreateCalls : calls[c].at <= Len(fallback_strategies)

\* C27: every resolution that was started returns; it makes at most 3 get
\* calls and at most 1 create call of its own, every get call before any
\* create call; resolve_with_fallback makes at most one more create call for
\* each CreateTemporary entry standing before the first Skip of the list, and
\* none for any other entry.
C27_TerminatesWithinCallBounds ==
    /\ []CallBounds
    /\ (pc # "idle") ~> (pc = "done")

\* three failed get calls, a failed create call of the primary resolution,
\* then one create call for each of two CreateTemporary entries
C27_Witness ==
    /\ entry = "resolve_with_fallback"
    /\ pc = "done"
    /\ fallback_strategies = <<"CreateTemporary", "CreateTemporary">>
    /\ Cardinality(GetCalls) = 3
    /\ Cardinality(CreateCallsAt(0)) = 1
    /\ Cardinality(CreateCallsAt(1)) = 1
    /\ Cardinality(CreateCallsAt(2)) = 1

\* ------------------------------------------------------------------------
\* C28
\* ------------------------------------------------------------------------
InConfigCheck == call.fn = "validate_aggregated_merchant_config"

ConfigFlagEnabled == call.auth.aggregated_merchants_enabled

\* the metadata of the call breaks one of the listed validation rules
ConfigRuleViolated ==
    call.metadata # None /\ MetadataRuleViolated(unwrap(call.metadata))

\* the metadata names an id
ConfigHasId ==
    call.metadata # None /\ is_some(unwrap(call.metadata).aggregated_merchant_id)

\* C28: validate_aggregated_merchant_config never returns Ok(false). With
\* the flag disabled it returns Ok(true) and sends nothing; with the flag
\* enabled it returns an error, and sends nothing, when the metadata breaks a
\* validation rule; it returns an error when the configured id was not
\* validated in 3 get attempts; in every other case, absent metadata
\* included, it returns Ok(true).
C28_ConfigCheckOutcomes ==
    (InConfigCheck /\ ret # Pending) =>
        /\ ret # Ok(FALSE)
        /\ IF ~ConfigFlagEnabled THEN ret = Ok(TRUE) /\ http = <<>>
           ELSE IF ConfigRuleViolated THEN is_err(ret) /\ http = <<>>
           ELSE IF ConfigHasId /\ call.retry_count = 3 THEN is_err(ret)
           ELSE ret = Ok(TRUE)

\* ------------------------------------------------------------------------
\* C29
\* ------------------------------------------------------------------------
\* a field of the metadata of the call, None when there is no metadata
MetadataField(f) == IF call.metadata = None THEN None ELSE unwrap(call.metadata)[f]

ProfileName == <<"P", "r", "o", "f", "i", "l", "e", "_">> \o call.router_data.merchant_id

\* C29: the request auto-creation builds has name "Profile_<merchant id>",
\* the business type of the metadata or else ecommerce, whatever the auth
\* config's default business type, the description of the metadata or else
\* "Payment processing for <profile name>", and registration identifier,
\* sector, website and manager name as the metadata has them, absent when it
\* has none.
C29_AutoCreateRequest ==
    (call.fn = "auto_create_aggregated_merchant" /\ is_ok(ret)) =>
        /\ ret.val.name = ProfileName
        /\ ret.val.business_type =
              IF MetadataField("business_type") = None THEN "ecommerce"
              ELSE unwrap(MetadataField("business_type"))
        /\ ret.val.business_description =
              IF MetadataField("business_description") = None
              THEN <<"P", "a", "y", "m", "e", "n", "t", " ", "p", "r", "o", "c", "e", "s",
                     "s", "i", "n", "g", " ", "f", "o", "r", " ">> \o ProfileName
              ELSE unwrap(MetadataField("business_description"))
        /\ \A f \in {"business_registration_identifier", "business_sector",
                     "website_url", "manager_name"} :
              ret.val[f] = MetadataField(f)

\* metadata without business type and description, an auth config whose
\* default business type is marketplace: the request says ecommerce
C29_Witness ==
    /\ call.fn = "auto_create_aggregated_merchant"
    /\ call.auth.default_business_type = "marketplace"
    /\ call.metadata # None
    /\ MetadataField("business_type") = None
    /\ MetadataField("business_description") = None
    /\ MetadataField("manager_name") # None
    /\ is_ok(ret)
    /\ ret.val.business_type = "ecommerce"
    /\ ret.val.manager_name = MetadataField("manager_name")

\* ------------------------------------------------------------------------
\* C30
\* ------------------------------------------------------------------------
RefundCalls == {"Execute::handle_response", "RSync::handle_response"}

\* the router data `after` differs from `before` in the fields named at most
SameExcept(before, after, fields) ==
    /\ DOMAIN after = DOMAIN before
    /\ \A f \in (DOMAIN before) \ fields : after[f] = before[f]

\* the auth config and the router data, with its metadata, that the caller
\* handed to the resolution now running
CallerOwned ==
    IF pc \in {"idle", "for_payment"} THEN <<router_data>> ELSE <<router_data, auth>>

\* C30: a response transformer returns the router data it was given with
\* only status and response changed, and a refund transformer with only
\* response changed; no step of a resolution changes the auth config or the
\* router data (whose connector_meta_data is the metadata) the caller passed,
\* and no step of the configuration check changes its auth config or metadata.
C30_FrameKept ==
    [][/\ (call'.fn \in HandleResponseCalls /\ is_ok(ret')) =>
             SameExcept(call'.data, ret'.val,
                        IF call'.fn \in RefundCalls THEN {"response"}
                        ELSE {"status", "response"})
       /\ (pc # "idle") =>
             /\ router_data' = router_data
             /\ (pc # "for_payment") => auth' = auth
       /\ InConfigCheck =>
             /\ call'.auth = call.auth
             /\ call'.metadata = call.metadata]_vars

\* a refund answer handled: the response is in, the attempt status and the
\* metadata of the router data are as they were given
C30_Witness ==
    /\ call.fn = "Execute::handle_response"
    /\ is_ok(ret)
    /\ call.data.status = "AuthenticationPending"
    /\ call.data.connector_meta_data # None
    /\ ret.val.status = "AuthenticationPending"
    /\ ret.val.connector_meta_data = call.data.connector_meta_data
    /\ is_ok(ret.val.response)
    /\ ret.val.response.val.refund_status = "Success"

====
